---- MODULE Spec2Model ----
(***************************************************************************)
(* Tiled raster streaming and level-of-detail refinement of iTowns:        *)
(*   - the raster tile texture holder (Renderer/RasterTile.ts),            *)
(*   - the layer data cache (Layer.getData, Layer/RasterLayer.ts),         *)
(*   - the per (node, layer) update of the layered material                *)
(*     (updateLayeredMaterialNodeImagery, Converter/Feature2Texture.ts).   *)
(* Tiles are modelled along one axis of the tile matrix: a tile is a zoom  *)
(* and a column, tile (z, c) covering the columns 2c and 2c+1 of zoom z+1. *)
(***************************************************************************)
EXTENDS Integers, Sequences, FiniteSets, TLC

VARIABLES
    h,          \* the raster tile holder under test
    hExt,       \* extents of the node owning h (node.getExtentsByProjection)
    p,          \* the holder of the parent node, or NoHolder
    pExt,       \* extents of the parent node
    call,       \* the last call made on h
    cache,      \* layer.cache: the entries, the most recently used first
    promises,   \* the promises made by source.loadData, in order of creation
    callers,    \* for each promise, the number of getData calls it was returned to
    lastGet,    \* the last getData call: its key, the promise returned, whether it loaded
    cacheLifeTime,  \* the cacheLifeTime of the layer
    isVectorSource, \* source.isVectorSource
    cfg,        \* the node, its parent's holder, the source and the layer settings
    lus,        \* node.layerUpdateState[layer.id], or NoState
    nl,         \* material.getTile(layer.id): the holder of the node, or NoHolder
    visible,    \* node.material.visible
    layerVisible,   \* layer.visible
    frozen,     \* layer.frozen
    cmds,       \* the commands of the pair that the scheduler has not resolved
    ev,         \* the last step taken on the pair
    issued,     \* the number of commands issued for the pair
    settled,    \* how the promise of the last resolved command was settled
    sibling,    \* layerUpdateState[layer.id] of another node of the hierarchy
    siblingHasTile, \* whether the material of the other node has a holder of the layer
    attached,   \* whether the layer is attached to the view and updated
    notified,   \* whether the last update or callback of the pair called view.notifyChange
    isElevationLayer,   \* layer.isElevationLayer
    elevationTile,  \* material.getElevationTile() and its level, or NoElevationTile
    dataElevation,  \* texture.image.data of an elevation texture, row by row
    noDataValue,    \* layer.noDataValue
    validity,       \* what checkNodeElevationTextureValidity returned: "valid", "invalid", or "none"
    dataReplaced,   \* the data after insertSignificantValuesFromParent, or <<>>
    parentDataElevation,    \* the data of the texture the holder held before, if any
    cell,           \* a cell of a tile matrix set: the set, a zoom, a row and a column
    covering,       \* what tiledCovering returned for the extent of the cell, or <<>>
    imageryLayers,  \* the imagery layers: the id and the sequence of each
    lastMove,       \* the last move of a layer and the imagery layers before it
    layerPromises,  \* layer._promises: source.whenReady, then the initialization steps
    awaited,        \* how many of them startup() passed to Promise.all, 0 before startup()
    startup,        \* where startup() is: "none", "awaiting", "ready", "added", "done"
    ready,          \* layer.ready
    whenReady,      \* layer.whenReady: "pending", "resolved" or "rejected"
    materialNode,   \* a node: the tiles of its material, its layerUpdateState, its bounding box
    lastRemoved,    \* the last removeLayeredMaterialNodeTile call and the node before it
    workerPool,     \* the LAS workers: _taskCost, _callbacks and _taskLoad of each
    taskIdCounter,  \* the id of the next LAS task
    tasks           \* the LAS tasks: the worker, the cost and the progress of each

holderVars == <<h, hExt, p, pExt, call>>

cacheVars == <<cache, promises, callers, lastGet, cacheLifeTime, isVectorSource>>

pipeVars == <<cfg, lus, nl, visible, layerVisible, frozen, cmds, ev, issued>>

sceneVars == <<settled, sibling, siblingHasTile, attached, notified>>

elevationVars == <<isElevationLayer, elevationTile>>

dataVars == <<dataElevation, noDataValue, validity, dataReplaced, parentDataElevation>>

gridVars == <<cell, covering>>

orderVars == <<imageryLayers, lastMove>>

readyVars == <<layerPromises, awaited, startup, ready, whenReady>>

nodeVars == <<materialNode, lastRemoved>>

workerVars == <<workerPool, taskIdCounter, tasks>>

utilVars == <<dataVars, gridVars, orderVars, readyVars, nodeVars, workerVars>>

vars == <<holderVars, cacheVars, pipeVars, sceneVars, elevationVars, utilVars>>

notHolderVars == <<cacheVars, pipeVars, sceneVars, elevationVars, utilVars>>

notCacheVars == <<holderVars, pipeVars, sceneVars, elevationVars, utilVars>>

notPipeVars == <<holderVars, cacheVars, sceneVars, elevationVars, utilVars>>

notUtilVars == <<holderVars, cacheVars, pipeVars, sceneVars, elevationVars>>

(***************************************************************************)
(* Bounds of the model                                                     *)
(***************************************************************************)
MaxZoom == 2

MaxSlots == 2

MaxFirstCol == 1

\* The capacity of the cache of a layer (max: 500 in the code).
CacheMax == 2

MaxKey == 3

MaxLoads == 3

MaxCallers == 2

MaxCommands == 2

MaxIssued == 4

EMPTY_TEXTURE_ZOOM == -1

Slots == 0 .. (MaxSlots - 1)

RECURSIVE Pow2(_)
Pow2(n) == IF n <= 0 THEN 1 ELSE 2 * Pow2(n - 1)

(***************************************************************************)
(* Tiles (extents of a tile matrix)                                        *)
(***************************************************************************)
Tile(z, c) == [zoom |-> z, col |-> c]

Tiles == { Tile(z, c) : <<z, c>> \in { zc \in (0 .. MaxZoom) \X (0 .. (Pow2(MaxZoom) - 1)) :
                                         zc[2] < Pow2(zc[1]) } }

\* Tile.isInside: the tile is the other tile or one of its descendants.
IsInside(tile, other) ==
    IF tile.zoom = other.zoom THEN tile.col = other.col
    ELSE IF tile.zoom < other.zoom THEN FALSE
    ELSE other.col = tile.col \div Pow2(tile.zoom - other.zoom)

\* Tile.tiledExtentParent: the ancestor of the tile at the given zoom.
TiledExtentParent(tile, zoom) ==
    IF zoom < tile.zoom THEN Tile(zoom, tile.col \div Pow2(tile.zoom - zoom)) ELSE tile

\* Tile.offsetToParent: position x / 2^z and scale 1 / 2^z of the tile inside
\* the other tile.
OffsetToParent(tile, other) ==
    [x |-> tile.col - other.col * Pow2(tile.zoom - other.zoom),
     z |-> tile.zoom - other.zoom]

NoPitch == [x |-> -1, z |-> -1]

(***************************************************************************)
(* Textures: a slot of a holder holds undefined (never written), null, a   *)
(* placeholder { isTexture: false, extent } or a texture with its extent.  *)
(***************************************************************************)
Undefined == [kind |-> "undefined", zoom |-> -1, col |-> -1]

Null == [kind |-> "null", zoom |-> -1, col |-> -1]

Texture(tile) == [kind |-> "texture", zoom |-> tile.zoom, col |-> tile.col]

Placeholder(tile) == [kind |-> "noData", zoom |-> tile.zoom, col |-> tile.col]

Truthy(t) == t.kind \notin {"undefined", "null"}

IsTexture(t) == t.kind = "texture"

HasExtent(t) == Truthy(t) /\ t.zoom >= 0

ExtentOf(t) == Tile(t.zoom, t.col)

(***************************************************************************)
(* RasterTile                                                              *)
(***************************************************************************)
\* RasterTile constructor
EmptyHolder ==
    [textures |-> [i \in Slots |-> Undefined],
     offsetScales |-> [i \in Slots |-> NoPitch],
     level |-> EMPTY_TEXTURE_ZOOM,
     needsUpdate |-> FALSE]

NoHolder ==
    [textures |-> [i \in Slots |-> Undefined],
     offsetScales |-> [i \in Slots |-> NoPitch],
     level |-> -2,
     needsUpdate |-> FALSE]

\* shouldWriteTextureAtIndex, with any candidate accepted
ShouldWriteAlways(holder, index, texture) == TRUE

\* shouldWriteTextureAtIndex
ShouldWriteTextureAtIndex(holder, index, texture) ==
    \/ ~Truthy(holder.textures[index])
    \/ (Truthy(texture) /\ IsTexture(texture))

\* setTexture, the level following valid textures only and never decreasing
SetTextureMaxLevel(holder, index, texture, offsetScale) ==
    IF ShouldWriteTextureAtIndex(holder, index, texture)
    THEN [holder EXCEPT
            !.level = IF IsTexture(texture) /\ texture.zoom > @ THEN texture.zoom ELSE @,
            !.textures[index] = IF Truthy(texture) THEN texture ELSE Null,
            !.offsetScales[index] = offsetScale,
            !.needsUpdate = TRUE]
    ELSE holder

\* setTexture, the offset written even when the texture is refused
SetTextureOffsetAlways(holder, index, texture, offsetScale) ==
    IF ShouldWriteTextureAtIndex(holder, index, texture)
    THEN [holder EXCEPT
            !.level = IF HasExtent(texture) THEN texture.zoom ELSE @,
            !.textures[index] = IF Truthy(texture) THEN texture ELSE Null,
            !.offsetScales[index] = offsetScale,
            !.needsUpdate = TRUE]
    ELSE [holder EXCEPT !.offsetScales[index] = offsetScale]

\* setTexture
SetTexture(holder, index, texture, offsetScale) ==
    IF ShouldWriteTextureAtIndex(holder, index, texture)
    THEN [holder EXCEPT
            !.level = IF HasExtent(texture) THEN texture.zoom ELSE @,
            !.textures[index] = IF Truthy(texture) THEN texture ELSE Null,
            !.offsetScales[index] = offsetScale,
            !.needsUpdate = TRUE]
    ELSE holder

\* disposeAtIndexes: the textures are released, the slots are kept
DisposeAtIndexes(holder, indexes) == [holder EXCEPT !.needsUpdate = TRUE]

\* dispose
Dispose(holder, removeEvent) ==
    [DisposeAtIndexes(holder, Slots) EXCEPT
        !.textures = [i \in Slots |-> Undefined],
        !.offsetScales = [i \in Slots |-> NoPitch],
        !.level = EMPTY_TEXTURE_ZOOM]

\* disposeRedrawnTextures
DisposeRedrawnTextures(holder, newTextures) ==
    LET validTextureIndexes ==
            { i \in 0 .. (Len(newTextures) - 1) :
                ShouldWriteTextureAtIndex(holder, i, newTextures[i + 1]) }
    IN  IF Cardinality(validTextureIndexes) = Len(newTextures)
        THEN Dispose(holder, FALSE)
        ELSE DisposeAtIndexes(holder, validTextureIndexes)

RECURSIVE SetEach(_, _, _, _)
SetEach(holder, textures, pitchs, i) ==
    IF i >= Len(textures) THEN holder
    ELSE SetEach(SetTexture(holder, i, textures[i + 1], pitchs[i + 1]), textures, pitchs, i + 1)

\* setTextures
SetTextures(holder, textures, pitchs) ==
    SetEach(DisposeRedrawnTextures(holder, textures), textures, pitchs, 0)

\* The comparator of sortBestParentTextures: valid textures first, then by
\* decreasing zoom; a negative result puts a before b.
SortCompare(a, b) ==
    LET sortByValidity == IF IsTexture(a) = IsTexture(b) THEN 0
                          ELSE IF IsTexture(a) THEN -1 ELSE 1
        sortByZoom == IF HasExtent(a) /\ HasExtent(b) THEN b.zoom - a.zoom ELSE 0
    IN  IF sortByValidity # 0 THEN sortByValidity ELSE sortByZoom

RECURSIVE SortFrom(_, _)
SortFrom(textures, remaining) ==
    IF remaining = {} THEN <<>>
    ELSE LET first == CHOOSE i \in remaining : \A j \in remaining \ {i} :
                          \/ SortCompare(textures[i], textures[j]) < 0
                          \/ (SortCompare(textures[i], textures[j]) = 0 /\ i < j)
         IN  <<textures[first]>> \o SortFrom(textures, remaining \ {first})

\* sortBestParentTextures: toSorted is stable and leaves the undefined
\* entries at the end, without comparing them.
SortBestParentTextures(textures) ==
    SortFrom(textures, { i \in DOMAIN textures : textures[i] # Undefined })
        \o SortFrom(textures, { i \in DOMAIN textures : textures[i] = Undefined })

\* The comparator reads isTexture of a null entry as soon as it compares
\* one: a TypeError that leaves initFromParent before any slot is written.
SortRaises(textures) ==
    /\ \E i \in DOMAIN textures : textures[i] = Null
    /\ Cardinality({ i \in DOMAIN textures : textures[i] # Undefined }) >= 2

\* The parent texture looked up without the containment test
FindAnyParentTexture(sorted, childExtent) ==
    IF \E k \in DOMAIN sorted : HasExtent(sorted[k])
    THEN sorted[CHOOSE k \in DOMAIN sorted :
                    /\ HasExtent(sorted[k])
                    /\ \A j \in 1 .. (k - 1) : ~HasExtent(sorted[j])]
    ELSE Undefined

\* sortedParentTextures.find(parentTexture => parentTexture?.extent &&
\*                           childExtent.isInside(parentTexture.extent))
FindMatchingParentTexture(sorted, childExtent) ==
    LET matches(t) == HasExtent(t) /\ IsInside(childExtent, ExtentOf(t))
    IN  IF \E k \in DOMAIN sorted : matches(sorted[k])
        THEN sorted[CHOOSE k \in DOMAIN sorted :
                        /\ matches(sorted[k])
                        /\ \A j \in 1 .. (k - 1) : ~matches(sorted[j])]
        ELSE Undefined

RECURSIVE InitEach(_, _, _, _, _)
InitEach(holder, sorted, extents, k, index) ==
    IF k > Len(extents) THEN holder
    ELSE LET childExtent == extents[k]
             matchingParentTexture == FindMatchingParentTexture(sorted, childExtent)
         IN  IF HasExtent(matchingParentTexture)
             THEN InitEach(SetTexture(holder, index, matchingParentTexture,
                                      OffsetToParent(childExtent, ExtentOf(matchingParentTexture))),
                           sorted, extents, k + 1, index + 1)
             ELSE InitEach(holder, sorted, extents, k + 1, index)

\* initFromParent
InitFromParent(holder, parent, extents) ==
    IF parent # NoHolder /\ parent.level > holder.level /\ ~SortRaises(parent.textures)
    THEN InitEach(holder, SortBestParentTextures(parent.textures), extents, 1, 0)
    ELSE holder

(***************************************************************************)
(* Calls on a holder: the holder h of a node and the holder p of its       *)
(* parent node. The textures handed to h are those a command of the node   *)
(* can deliver: a texture of an ancestor tile of the destination extent,   *)
(* a placeholder on the destination extent, or nothing.                    *)
(***************************************************************************)
\* The lists of consecutive tiles of one zoom that a node can cover, the
\* first tile being one of the first columns of the tile matrix.
ExtentLists(zoom) ==
    { [k \in 1 .. n |-> Tile(zoom, c + k - 1)] :
        <<n, c>> \in { nc \in (1 .. MaxSlots) \X (0 .. MaxFirstCol) :
                          nc[2] + nc[1] <= Pow2(zoom) } }

Candidates(extent) ==
    {Null, Placeholder(extent)}
        \cup { Texture(TiledExtentParent(extent, z)) : z \in 0 .. extent.zoom }

\* The lists of textures a call of setTextures can carry for these extents.
CandidateLists(extents) ==
    UNION { { ts \in [1 .. n -> UNION { Candidates(extents[k]) : k \in 1 .. n }] :
                \A k \in 1 .. n : ts[k] \in Candidates(extents[k]) } : n \in 1 .. Len(extents) }

\* computePitchs
PitchOf(texture, extent) ==
    IF HasExtent(texture) THEN OffsetToParent(extent, ExtentOf(texture)) ELSE NoPitch

ComputePitchs(textures, extentsDestination) ==
    [k \in DOMAIN textures |-> PitchOf(textures[k], extentsDestination[k])]

NoCall == [op |-> "new"]

\* The cache of a layer on which getData was never called.
NoGet == [key |-> 0, promise |-> 0, loaded |-> FALSE]

CacheAtRest ==
    /\ cache = <<>>
    /\ promises = <<>>
    /\ callers = <<>>
    /\ lastGet = NoGet
    /\ cacheLifeTime = "Infinity"
    /\ isVectorSource = FALSE

HolderAtRest ==
    /\ h = EmptyHolder
    /\ hExt = <<Tile(0, 0)>>
    /\ p = NoHolder
    /\ pExt = <<>>
    /\ call = NoCall

\* Infinity, above every zoom of the model.
Infinity == MaxZoom + 5

\* node.layerUpdateState[layer.id] === undefined
NoState == [state |-> "undefined", lowestLevelError |-> Infinity]

NoEvent == [op |-> "none", target |-> -1, before |-> NoState]

\* material.getElevationTile() of a material without elevation tile
NoElevationTile == [isTile |-> FALSE, level |-> EMPTY_TEXTURE_ZOOM]

\* parentTexture is undefined, or has no image data: parentDataElevation is
\* undefined.
NoParentData == [kind |-> "undefined", data |-> <<>>]

\* No elevation data was checked.
DataAtRest ==
    /\ dataElevation = <<>>
    /\ noDataValue = 0
    /\ validity = "none"
    /\ dataReplaced = <<>>
    /\ parentDataElevation = NoParentData

\* The tile matrix set of the web-mercator projection: one tile at zoom 0,
\* the rows counted from the north.
Tms3857 == [sTsX |-> 1, sTsY |-> 1, isInverted |-> TRUE]

\* No covering was computed.
GridAtRest ==
    /\ cell = [tms |-> Tms3857, zoom |-> 0, row |-> 0, col |-> 0]
    /\ covering = <<>>

\* No layer was moved.
NoMove == [op |-> "none", id |-> 0, newIndex |-> 0, before |-> <<>>]

\* One imagery layer.
OrderAtRest ==
    /\ imageryLayers = <<[id |-> 1, sequence |-> 0]>>
    /\ lastMove = NoMove

\* A layer just constructed: its promises are source.whenReady alone.
ReadyAtRest ==
    /\ layerPromises = <<"pending">>
    /\ awaited = 0
    /\ startup = "none"
    /\ ready = FALSE
    /\ whenReady = "pending"

\* material.elevationTile undefined, no tile, no entry of layerUpdateState
NoNode ==
    [tiles |-> {}, elevationTile |-> 0, layerUpdateState |-> <<>>,
     bboxZ |-> [min |-> 0, max |-> 0]]

NoRemoval == [id |-> 0, before |-> NoNode]

NodeAtRest ==
    /\ materialNode = NoNode
    /\ lastRemoved = NoRemoval

\* No LAS file was parsed: the pool has no worker.
WorkerAtRest ==
    /\ workerPool = <<>>
    /\ taskIdCounter = 0
    /\ tasks = <<>>

UtilAtRest ==
    /\ DataAtRest
    /\ GridAtRest
    /\ OrderAtRest
    /\ ReadyAtRest
    /\ NodeAtRest
    /\ WorkerAtRest

\* A root node of a raster layer with the default settings, never updated.
PipeAtRest ==
    /\ cfg = [node |-> Tile(0, 0), parent |-> NoHolder,
              sourceZoomMin |-> 0, sourceZoomMax |-> MaxZoom, sourceCovers |-> TRUE,
              zoomMin |-> 0, zoomMax |-> Infinity,
              strategy |-> "STRATEGY_MIN_NETWORK_TRAFFIC",
              noTextureParentOutsideLimit |-> FALSE]
    /\ lus = NoState
    /\ nl = NoHolder
    /\ visible = TRUE
    /\ layerVisible = TRUE
    /\ frozen = FALSE
    /\ cmds = <<>>
    /\ ev = NoEvent
    /\ issued = 0
    /\ settled = "none"
    /\ sibling = NoState
    /\ siblingHasTile = FALSE
    /\ attached = TRUE
    /\ notified = FALSE
    /\ isElevationLayer = FALSE
    /\ elevationTile = NoElevationTile

InitHolder ==
    /\ \E z \in 0 .. MaxZoom : hExt \in ExtentLists(z)
    /\ h = EmptyHolder
    /\ p = NoHolder
    /\ pExt = <<>>
    /\ call = NoCall
    /\ CacheAtRest
    /\ PipeAtRest
    /\ UtilAtRest

HSetTexture ==
    \E i \in 0 .. (Len(hExt) - 1) : \E t \in Candidates(hExt[i + 1]) :
        /\ h' = SetTexture(h, i, t, PitchOf(t, hExt[i + 1]))
        /\ call' = [op |-> "setTexture"]
        /\ UNCHANGED <<hExt, p, pExt>>
        /\ UNCHANGED notHolderVars

HSetTextures ==
    \E textures \in CandidateLists(hExt) :
        /\ h' = SetTextures(h, textures, ComputePitchs(textures, hExt))
        /\ call' = [op |-> "setTextures"]
        /\ UNCHANGED <<hExt, p, pExt>>
        /\ UNCHANGED notHolderVars

HInitFromParent ==
    /\ h' = InitFromParent(h, p, hExt)
    /\ call' = [op |-> "initFromParent"]
    /\ UNCHANGED <<hExt, p, pExt>>
    /\ UNCHANGED notHolderVars

HDispose ==
    /\ h' = Dispose(h, TRUE)
    /\ call' = [op |-> "dispose"]
    /\ UNCHANGED <<hExt, p, pExt>>
    /\ UNCHANGED notHolderVars

\* The node is subdivided: its holder becomes the parent holder of the
\* holder of one of its children.
HSubdivide ==
    /\ hExt[1].zoom < MaxZoom
    /\ \E extents \in ExtentLists(hExt[1].zoom + 1) :
        /\ \E k \in DOMAIN extents : \E q \in DOMAIN hExt : IsInside(extents[k], hExt[q])
        /\ hExt' = extents
    /\ p' = h
    /\ pExt' = hExt
    /\ h' = EmptyHolder
    /\ call' = NoCall
    /\ UNCHANGED notHolderVars

NextHolder == HSetTexture \/ HSetTextures \/ HInitFromParent \/ HDispose \/ HSubdivide

SpecHolder == InitHolder /\ [][NextHolder]_vars

(***************************************************************************)
(* Claims on the holder                                                    *)
(***************************************************************************)
SlotsOf(extents) == 0 .. (Len(extents) - 1)

ValidZooms(holder) == { holder.textures[i].zoom : i \in { j \in Slots : IsTexture(holder.textures[j]) } }

ExtentZooms(holder) == { holder.textures[i].zoom : i \in { j \in Slots : HasExtent(holder.textures[j]) } }

Max(S) == CHOOSE x \in S : \A y \in S : y <= x

\* C2, as stated: whatever the holder holds, a call of setTexture or
\* setTextures whose candidate for a slot is empty, a placeholder or a
\* texture of a lower zoom than the valid texture of the slot leaves that
\* texture in the slot, so that the zoom held in a slot never decreases.
C2_NeverDowngrade ==
    /\ \A i \in SlotsOf(hExt) : \A t \in Candidates(hExt[i + 1]) :
         (IsTexture(h.textures[i]) /\ (~IsTexture(t) \/ t.zoom < h.textures[i].zoom))
            => SetTexture(h, i, t, PitchOf(t, hExt[i + 1])).textures[i] = h.textures[i]
    /\ \A ts \in CandidateLists(hExt) : \A k \in DOMAIN ts :
         (IsTexture(h.textures[k - 1]) /\ (~IsTexture(ts[k]) \/ ts[k].zoom < h.textures[k - 1].zoom))
            => SetTextures(h, ts, ComputePitchs(ts, hExt)).textures[k - 1] = h.textures[k - 1]

\* C2, amended: a call of setTexture or setTextures whose candidate for a
\* slot is empty or a placeholder leaves the valid texture of that slot in
\* place (a valid candidate replaces it, whatever its zoom).
C2_NeverReplacedByInvalid ==
    /\ \A i \in SlotsOf(hExt) : \A t \in Candidates(hExt[i + 1]) :
         (IsTexture(h.textures[i]) /\ ~IsTexture(t))
            => SetTexture(h, i, t, PitchOf(t, hExt[i + 1])).textures[i] = h.textures[i]
    /\ \A ts \in CandidateLists(hExt) : \A k \in DOMAIN ts :
         (IsTexture(h.textures[k - 1]) /\ ~IsTexture(ts[k]))
            => SetTextures(h, ts, ComputePitchs(ts, hExt)).textures[k - 1] = h.textures[k - 1]

\* C2, witness: after a call of setTextures the holder has a valid texture
\* in a slot, which a list carrying a placeholder for that slot and a
\* texture for another one leaves in place.
C2_Witness ==
    /\ call.op = "setTextures"
    /\ Len(hExt) = 2
    /\ IsTexture(h.textures[0])
    /\ LET ts == <<Placeholder(hExt[1]), Texture(hExt[2])>>
           r == SetTextures(h, ts, ComputePitchs(ts, hExt))
       IN  r.textures[0] = h.textures[0] /\ r.textures[1] = Texture(hExt[2])

\* C3: setTexture writes the slot only if the candidate is a valid texture
\* or the slot is unoccupied, and a missing or placeholder candidate leaves
\* textures, offsetScales and level as they were when the slot holds a
\* valid texture.
C3_SetTextureGuard ==
    \A i \in SlotsOf(hExt) : \A t \in Candidates(hExt[i + 1]) :
        LET r == SetTexture(h, i, t, PitchOf(t, hExt[i + 1]))
            written == \/ r.textures[i] # h.textures[i]
                       \/ r.offsetScales[i] # h.offsetScales[i]
                       \/ r.level # h.level
        IN  /\ written => (IsTexture(t) \/ ~Truthy(h.textures[i]))
            /\ (IsTexture(h.textures[i]) /\ ~IsTexture(t))
                  => /\ r.textures = h.textures
                     /\ r.offsetScales = h.offsetScales
                     /\ r.level = h.level

\* C3, witness: setTexture has put a valid texture of a lower zoom in a
\* slot, and refuses the placeholder of the destination extent there.
C3_Witness ==
    /\ call.op = "setTexture"
    /\ \E i \in SlotsOf(hExt) :
        /\ IsTexture(h.textures[i])
        /\ h.textures[i].zoom < hExt[i + 1].zoom
        /\ SetTexture(h, i, Placeholder(hExt[i + 1]), OffsetToParent(hExt[i + 1], hExt[i + 1])) = h

\* The columns of the finest zoom that a tile covers.
Footprint(tile) ==
    { c \in 0 .. (Pow2(MaxZoom) - 1) : c \div Pow2(MaxZoom - tile.zoom) = tile.col }

\* The child extents for which the parent holds a texture or placeholder
\* whose footprint covers the footprint of the child extent, in order.
CoveredChildren(parent, extents) ==
    SelectSeq(extents, LAMBDA e : \E j \in Slots :
        /\ HasExtent(parent.textures[j])
        /\ Footprint(e) \subseteq Footprint(ExtentOf(parent.textures[j])))

\* C5: every texture that initFromParent binds in a slot of the child
\* holder covers the whole footprint of the child extent it was matched
\* with, the k-th bound texture going with the k-th child extent that some
\* parent texture covers.
C5_InheritanceContainment ==
    LET r == InitFromParent(h, p, hExt)
        covered == CoveredChildren(p, hExt)
    IN  \A i \in Slots :
            (r.textures[i] # h.textures[i] \/ r.offsetScales[i] # h.offsetScales[i])
                => /\ HasExtent(r.textures[i])
                   /\ i + 1 <= Len(covered)
                   /\ Footprint(covered[i + 1]) \subseteq Footprint(ExtentOf(r.textures[i]))

\* C5, witness: initFromParent has bound a parent texture to the child
\* extent it covers while the parent also holds a texture of another tile,
\* which does not cover that child extent.
C5_Witness ==
    /\ call.op = "initFromParent"
    /\ IsTexture(h.textures[0])
    /\ IsInside(hExt[1], ExtentOf(h.textures[0]))
    /\ \E j \in Slots :
        /\ IsTexture(p.textures[j])
        /\ ~(Footprint(hExt[1]) \subseteq Footprint(ExtentOf(p.textures[j])))

\* C10, as stated: level is the maximum zoom among the valid textures of
\* the holder, and EMPTY_TEXTURE_ZOOM when it holds none.
C10_LevelIsMaxValidZoom ==
    h.level = IF ValidZooms(h) = {} THEN EMPTY_TEXTURE_ZOOM ELSE Max(ValidZooms(h))

\* C10, amended: level is EMPTY_TEXTURE_ZOOM exactly when the holder holds
\* neither a texture nor a placeholder, and is otherwise the zoom of one of
\* the textures or placeholders it holds (the last one written): not always
\* a valid one, not always the maximum.
C10_LevelIsHeldZoom ==
    IF ExtentZooms(h) = {} THEN h.level = EMPTY_TEXTURE_ZOOM ELSE h.level \in ExtentZooms(h)

\* C10, witness: the holder holds two valid textures and its level is the
\* lower of their zooms.
C10_Witness ==
    /\ call.op \in {"setTexture", "setTextures"}
    /\ IsTexture(h.textures[0]) /\ IsTexture(h.textures[1])
    /\ h.textures[0].zoom > h.textures[1].zoom
    /\ h.level = h.textures[1].zoom

(***************************************************************************)
(* Layer.getData and the cache of the layer                                *)
(***************************************************************************)
Keys == 1 .. MaxKey

RemoveAt(c, e) == SubSeq(c, 1, e - 1) \o SubSeq(c, e + 1, Len(c))

CacheHas(c, key) == \E e \in 1 .. Len(c) : c[e].key = key

CacheIndex(c, key) == CHOOSE e \in 1 .. Len(c) : c[e].key = key

\* LRUCache.get: the value of the key, which becomes the most recently used
\* entry; 0 stands for undefined.
CacheGet(c, key) == IF CacheHas(c, key) THEN c[CacheIndex(c, key)].promise ELSE 0

CacheTouch(c, key) ==
    IF CacheHas(c, key)
    THEN <<c[CacheIndex(c, key)]>> \o RemoveAt(c, CacheIndex(c, key))
    ELSE c

\* LRUCache.set: the entry becomes the most recently used one, and the least
\* recently used entry leaves a cache that holds more than max entries.
CacheSet(c, key, promise) ==
    LET without == IF CacheHas(c, key) THEN RemoveAt(c, CacheIndex(c, key)) ELSE c
        with == <<[key |-> key, promise |-> promise]>> \o without
    IN  IF Len(with) > CacheMax THEN SubSeq(with, 1, CacheMax) ELSE with

\* source.getDataKey(source.isVectorSource ? to : from)
GetDataKey(vector, from, to) == IF vector THEN to ELSE from

\* getData, the cache never consulted
GetDataAlwaysLoad(c, ps, key) ==
    LET loaded == Append(ps, [key |-> key, status |-> "pending", dropped |-> FALSE])
    IN  [cache |-> CacheSet(c, key, Len(loaded)), promises |-> loaded,
         data |-> Len(loaded), loaded |-> TRUE]

\* getData: the cache after the call, the promises made so far, the promise
\* returned and whether source.loadData was called.
GetData(c, ps, key) ==
    LET data == CacheGet(c, key)
        loaded == Append(ps, [key |-> key, status |-> "pending", dropped |-> FALSE])
    IN  IF data # 0
        THEN [cache |-> CacheTouch(c, key), promises |-> ps, data |-> data, loaded |-> FALSE]
        ELSE [cache |-> CacheSet(c, key, Len(loaded)), promises |-> loaded,
              data |-> Len(loaded), loaded |-> TRUE]

\* The promises of ps, those whose entry has left the cache c marked so.
MarkDropped(ps, c) ==
    [i \in DOMAIN ps |->
        IF \E e \in 1 .. Len(c) : c[e].promise = i THEN ps[i]
        ELSE [ps[i] EXCEPT !.dropped = TRUE]]

InitCache ==
    /\ HolderAtRest
    /\ PipeAtRest
    /\ UtilAtRest
    /\ cache = <<>>
    /\ promises = <<>>
    /\ callers = <<>>
    /\ lastGet = NoGet
    /\ cacheLifeTime \in {"Infinity", "finite"}
    /\ isVectorSource \in BOOLEAN

CGetData ==
    \E from \in Keys : \E to \in Keys :
        LET key == GetDataKey(isVectorSource, from, to)
            r == GetData(cache, promises, key)
        IN  /\ Len(r.promises) <= MaxLoads
            /\ IF r.loaded THEN TRUE ELSE callers[r.data] < MaxCallers
            /\ cache' = r.cache
            /\ promises' = MarkDropped(r.promises, r.cache)
            /\ callers' = IF r.loaded THEN Append(callers, 1)
                           ELSE [callers EXCEPT ![r.data] = @ + 1]
            /\ lastGet' = [key |-> key, promise |-> r.data, loaded |-> r.loaded]
            /\ UNCHANGED <<cacheLifeTime, isVectorSource>>
            /\ UNCHANGED notCacheVars

\* The promise of loadData, converted, is fulfilled.
CResolve ==
    \E i \in DOMAIN promises :
        /\ promises[i].status = "pending"
        /\ promises' = [promises EXCEPT ![i].status = "resolved"]
        /\ UNCHANGED <<cache, callers, lastGet, cacheLifeTime, isVectorSource>>
        /\ UNCHANGED notCacheVars

\* The promise of loadData is rejected: the error is thrown again, the
\* cache keeps the entry.
CReject ==
    \E i \in DOMAIN promises :
        /\ promises[i].status = "pending"
        /\ promises' = [promises EXCEPT ![i].status = "rejected"]
        /\ UNCHANGED <<cache, callers, lastGet, cacheLifeTime, isVectorSource>>
        /\ UNCHANGED notCacheVars

\* The ttl of an entry elapses.
CExpire ==
    /\ cacheLifeTime # "Infinity"
    /\ \E e \in 1 .. Len(cache) :
        /\ cache' = RemoveAt(cache, e)
        /\ promises' = MarkDropped(promises, RemoveAt(cache, e))
    /\ UNCHANGED <<callers, lastGet, cacheLifeTime, isVectorSource>>
    /\ UNCHANGED notCacheVars

\* RasterLayer.delete(true): cache.clear()
CClear ==
    /\ cache' = <<>>
    /\ promises' = MarkDropped(promises, <<>>)
    /\ UNCHANGED <<callers, lastGet, cacheLifeTime, isVectorSource>>
    /\ UNCHANGED notCacheVars

NextCache == CGetData \/ CResolve \/ CReject \/ CExpire \/ CClear

SpecCache == InitCache /\ [][NextCache]_vars

(***************************************************************************)
(* Claims on the cache                                                     *)
(***************************************************************************)
Unsettled(key) ==
    { i \in DOMAIN promises : promises[i].key = key /\ promises[i].status = "pending" }

\* C4, as stated: of the getData calls of one derived key issued before the
\* first of them settles, one only calls source.loadData: no two promises
\* of loadData for the same key are unsettled at the same time.
C4_OneLoadPerKey == \A key \in Keys : Cardinality(Unsettled(key)) <= 1

\* C4, amended: of the getData calls of one derived key issued before the
\* first of them settles and while the entry the first one set is still in
\* the cache (not evicted by newer keys, not expired, not cleared), the
\* first only calls source.loadData and all receive the same promise.
C4_DedupWhileCached ==
    /\ \A key \in Keys :
         Cardinality({ i \in Unsettled(key) : ~promises[i].dropped }) <= 1
    /\ \A from \in Keys : \A to \in Keys :
         LET key == GetDataKey(isVectorSource, from, to)
             r == GetData(cache, promises, key)
         IN  CacheHas(cache, key)
                => /\ ~r.loaded
                   /\ r.promises = promises
                   /\ r.data = cache[CacheIndex(cache, key)].promise
    /\ (lastGet # NoGet /\ ~lastGet.loaded)
            => /\ promises[lastGet.promise].key = lastGet.key
               /\ callers[lastGet.promise] >= 2

\* C4, witness: a second getData call of a key received the unsettled
\* promise of the first one, the cache being full.
C4_Witness ==
    /\ lastGet # NoGet /\ ~lastGet.loaded
    /\ promises[lastGet.promise].status = "pending"
    /\ callers[lastGet.promise] = 2
    /\ Len(cache) = CacheMax
    /\ Cardinality({ i \in DOMAIN promises : promises[i].key = lastGet.key }) = 1

(***************************************************************************)
(* LayerUpdateState: the update state of a (node, layer) pair              *)
(***************************************************************************)
Min(a, b) == IF a < b THEN a ELSE b

\* new LayerUpdateState()
NewLayerUpdateState == [state |-> "IDLE", lowestLevelError |-> Infinity]

\* canTryUpdate: false while PENDING and once DEFINITIVE
CanTryUpdate(s) == s.state = "IDLE"

\* newTry: IDLE -> PENDING
NewTry(s) == IF s.state = "DEFINITIVE" THEN s ELSE [s EXCEPT !.state = "PENDING"]

\* success: PENDING -> IDLE
Success(s) == IF s.state = "DEFINITIVE" THEN s ELSE [s EXCEPT !.state = "IDLE"]

\* failure: PENDING -> IDLE, recording lowestLevelError
Failure(s, targetLevel) ==
    IF s.state = "DEFINITIVE" THEN s
    ELSE [state |-> "IDLE", lowestLevelError |-> Min(targetLevel, s.lowestLevelError)]

\* noData: -> IDLE, the level being marked as absent
NoData(s, targetLevel) ==
    IF s.state = "DEFINITIVE" THEN s
    ELSE [state |-> "IDLE", lowestLevelError |-> Min(targetLevel, s.lowestLevelError)]

\* noMoreUpdatePossible: any -> DEFINITIVE
NoMoreUpdatePossible(s) == [s EXCEPT !.state = "DEFINITIVE"]

(***************************************************************************)
(* LayerUpdateStrategy: the level to fetch next                            *)
(***************************************************************************)
\* The value of chooseNextLevelToFetch when no further update is possible.
NoLevel == -1

\* The next level up, whatever the destination level and the failures
ChooseNextLevelAnyway(strategy, destinationLevel, currentLevel, failureParams) ==
    currentLevel + 1

\* chooseNextLevelToFetch: a level above the current one, at most the
\* destination level and below the lowest level in error; the next level
\* for the strategy minimizing the network traffic, about halfway for the
\* dichotomy.
ChooseNextLevelToFetch(strategy, destinationLevel, currentLevel, failureParams) ==
    LET ceiling == Min(destinationLevel, failureParams.lowestLevelError - 1)
    IN  IF ceiling <= currentLevel THEN NoLevel
        ELSE IF strategy = "STRATEGY_MIN_NETWORK_TRAFFIC" THEN currentLevel + 1
        ELSE currentLevel + ((ceiling - currentLevel + 1) \div 2)

\* source.extentInsideLimit(node.extent, zoom)
ExtentInsideLimit(c, zoom) ==
    c.sourceCovers /\ zoom >= c.sourceZoomMin /\ zoom <= c.sourceZoomMax

(***************************************************************************)
(* updateLayeredMaterialNodeImagery                                        *)
(***************************************************************************)
\* node.getExtentsByProjection(layer.crs)
ExtentsDestination(c) == <<c.node>>

\* The outcome of a step of the update: the state, the holder and the
\* commands of the pair, what was done and the level concerned.
Outcome(s, holder, commands, op, target) ==
    [lus |-> s, nl |-> holder, cmds |-> commands, op |-> op, target |-> target]

\* The source extents of a command, taken at the destination level
ExtentsSourceAtDestination(extentsDestination, targetLevel) ==
    [k \in DOMAIN extentsDestination |-> extentsDestination[k]]

\* extentsDestination.map(e => e.tiledExtentParent(targetLevel))
ExtentsSource(extentsDestination, targetLevel) ==
    [k \in DOMAIN extentsDestination |->
        TiledExtentParent(extentsDestination[k], targetLevel)]

\* materialCommandQueuePriorityFunction
MaterialCommandQueuePriorityFunction(materialVisible) ==
    IF materialVisible THEN 100 ELSE 10

\* buildCommand, with what the callbacks of the command close over: the
\* target level, and the state and the level of the holder at the request.
BuildCommand(extentsSource, extentsDestination, materialVisible, targetLevel, s, holder) ==
    [extentsSource |-> extentsSource,
     extentsDestination |-> extentsDestination,
     priority |-> MaterialCommandQueuePriorityFunction(materialVisible),
     status |-> "queued",
     targetLevel |-> targetLevel,
     before |-> s,
     levelAtRequest |-> holder.level]

\* The test on the layer and the state, the state being ignored
MayUpdateWhateverState(isLayerVisible, s) == isLayerVisible

\* !(!layer.visible || !node.layerUpdateState[layer.id].canTryUpdate())
MayUpdate(isLayerVisible, s) == isLayerVisible /\ CanTryUpdate(s)

\* No level to fetch, the state left as it is
OnNoLevelKeepTrying(s) == s

\* No level to fetch: with a level in error, this is the highest level found.
OnNoLevel(s) ==
    IF s.lowestLevelError # Infinity THEN NoMoreUpdatePossible(s) ELSE s

\* The second pass of updateLayeredMaterialNodeImagery: fetch the best
\* texture.
FetchBestTexture(c, materialVisible, isLayerVisible, isFrozen, s, holder, commands) ==
    LET extentsDestination == ExtentsDestination(c)
        zoom == extentsDestination[1].zoom
        same == Outcome(s, holder, commands, "return", -1)
        destinationLevel == IF zoom # 0 THEN zoom ELSE c.node.zoom
        targetLevel == ChooseNextLevelToFetch(c.strategy, destinationLevel, holder.level, s)
    IN  IF ~materialVisible THEN same
        ELSE IF ~MayUpdate(isLayerVisible, s) THEN same
        ELSE IF holder = NoHolder THEN same
        ELSE IF holder.level >= zoom
             THEN Outcome(NoMoreUpdatePossible(s), holder, commands, "definitive", -1)
        ELSE IF isFrozen THEN same
        ELSE IF (~isVectorSource /\ targetLevel <= holder.level) \/ targetLevel > destinationLevel
             THEN Outcome(OnNoLevel(s), holder, commands,
                          IF OnNoLevel(s) = s THEN "return" ELSE "definitive", -1)
        ELSE IF ~ExtentInsideLimit(c, targetLevel)
             THEN Outcome(NoData(s, targetLevel), holder, commands, "noData", targetLevel)
        ELSE Outcome(NewTry(s), holder,
                     Append(commands,
                            BuildCommand(ExtentsSource(extentsDestination, targetLevel),
                                         extentsDestination, materialVisible, targetLevel,
                                         s, holder)),
                     "issue", targetLevel)

\* updateLayeredMaterialNodeImagery
UpdateLayeredMaterialNodeImagery(c, materialVisible, isLayerVisible, isFrozen, s, holder, commands) ==
    LET extentsDestination == ExtentsDestination(c)
        zoom == extentsDestination[1].zoom
        fresh == NewLayerUpdateState
        inherits == ~c.noTextureParentOutsideLimit /\ c.parent # NoHolder
        nodeLayer == IF holder = NoHolder
                     THEN InitFromParent(EmptyHolder, c.parent, extentsDestination)
                     ELSE holder
    IN  IF zoom > c.zoomMax \/ zoom < c.zoomMin
        THEN Outcome(s, holder, commands, "return", -1)
        ELSE IF s # NoState
        THEN FetchBestTexture(c, materialVisible, isLayerVisible, isFrozen, s, holder, commands)
        ELSE IF ~ExtentInsideLimit(c, zoom) /\ ~inherits
        THEN Outcome(NoMoreUpdatePossible(fresh), holder, commands, "definitive", -1)
        ELSE IF nodeLayer.level >= c.sourceZoomMin
        THEN Outcome(fresh, nodeLayer, commands, "init", -1)
        ELSE FetchBestTexture(c, materialVisible, isLayerVisible, isFrozen,
                              fresh, nodeLayer, commands)

\* refinementCommandCancellationFn: the node of the model keeps its parent
\* and its material, and the layer is a color layer.
RefinementCommandCancellationFn(cmd, s, materialVisible) ==
    \/ s = NoState
    \/ ~materialVisible

\* handlingError: the failure is recorded in the state of the pair.
HandlingError(s, targetLevel) == IF s = NoState THEN s ELSE Failure(s, targetLevel)

\* The holders the parent of a node can have for the layer: none, or one
\* with a texture of the tile of the parent or of one of its ancestors.
ParentHolders(node) ==
    {NoHolder} \cup
    { SetTexture(EmptyHolder, 0, Texture(TiledExtentParent(node, a)),
                 OffsetToParent(TiledExtentParent(node, node.zoom - 1),
                                TiledExtentParent(node, a))) :
        a \in 0 .. (node.zoom - 1) }

\* The nodes, sources and layers of the model.
Cfgs ==
    { c \in [node : { Tile(z, 0) : z \in 0 .. MaxZoom },
             parent : UNION { ParentHolders(Tile(z, 0)) : z \in 0 .. MaxZoom },
             sourceZoomMin : 0 .. 1,
             sourceZoomMax : 0 .. MaxZoom,
             sourceCovers : BOOLEAN,
             zoomMin : 0 .. 1,
             zoomMax : {1, Infinity},
             strategy : {"STRATEGY_MIN_NETWORK_TRAFFIC", "STRATEGY_DICHOTOMY"},
             noTextureParentOutsideLimit : BOOLEAN] :
        /\ c.parent \in ParentHolders(c.node)
        /\ c.sourceZoomMin <= c.sourceZoomMax
        /\ c.zoomMin <= c.zoomMax }

\* Nothing has been updated yet: a root node of a raster layer with the
\* default settings.
Init ==
    /\ HolderAtRest
    /\ CacheAtRest
    /\ PipeAtRest
    /\ UtilAtRest

\* The view is set up before its first update: the node, the holder of its
\* parent, the source and the settings of the layer.
PSetup ==
    /\ ev = NoEvent
    /\ cfg' \in Cfgs
    /\ ev' = [op |-> "setup", target |-> -1, before |-> NoState]
    /\ UNCHANGED <<lus, nl, visible, layerVisible, frozen, cmds, issued>>
    /\ UNCHANGED notPipeVars

\* A frame: the update of the node for the layer.
PUpdate ==
    \E r \in {UpdateLayeredMaterialNodeImagery(cfg, visible, layerVisible, frozen, lus, nl, cmds)} :
        /\ (r.op = "issue") => (Len(cmds) < MaxCommands /\ issued < MaxIssued)
        /\ lus' = r.lus
        /\ nl' = r.nl
        /\ cmds' = r.cmds
        /\ ev' = [op |-> r.op, target |-> r.target, before |-> lus]
        /\ issued' = IF r.op = "issue" THEN issued + 1 ELSE issued
        /\ UNCHANGED <<cfg, visible, layerVisible, frozen>>
        /\ UNCHANGED notPipeVars

\* The queued commands the scheduler serves first.
Served(k) ==
    /\ cmds[k].status = "queued"
    /\ \A j \in DOMAIN cmds :
         cmds[j].status = "queued" => cmds[j].priority <= cmds[k].priority

\* The scheduler takes a command whose earlyDropFunction returns true: the
\* command is dropped, nothing is fetched and nothing is told to the pair.
PDrop ==
    \E k \in DOMAIN cmds :
        /\ Served(k)
        /\ RefinementCommandCancellationFn(cmds[k], lus, visible)
        /\ cmds' = RemoveAt(cmds, k)
        /\ ev' = [op |-> "drop", target |-> cmds[k].targetLevel, before |-> cmds[k].before]
        /\ UNCHANGED <<cfg, lus, nl, visible, layerVisible, frozen, issued>>
        /\ UNCHANGED notPipeVars

\* The scheduler takes a command and executes it: the data is fetched.
PExecute ==
    \E k \in DOMAIN cmds :
        /\ Served(k)
        /\ ~RefinementCommandCancellationFn(cmds[k], lus, visible)
        /\ cmds' = [cmds EXCEPT ![k].status = "executing"]
        /\ ev' = [op |-> "execute", target |-> cmds[k].targetLevel, before |-> lus]
        /\ UNCHANGED <<cfg, lus, nl, visible, layerVisible, frozen, issued>>
        /\ UNCHANGED notPipeVars

\* The textures of the results of a command, a placeholder standing for
\* each null result.
ResultTextures(cmd, found) ==
    [k \in DOMAIN cmd.extentsDestination |->
        IF found THEN Texture(cmd.extentsSource[k])
        ELSE Placeholder(cmd.extentsDestination[k])]

\* A command succeeds, with a texture or with null as result.
PComplete ==
    \E k \in DOMAIN cmds : \E found \in BOOLEAN :
        LET textures == ResultTextures(cmds[k], found)
            pitchs == ComputePitchs(textures, cmds[k].extentsDestination)
        IN  /\ cmds[k].status = "executing"
            /\ IF lus = NoState
               THEN UNCHANGED <<lus, nl>>
               ELSE /\ nl' = SetTextures(nl, textures, pitchs)
                    /\ lus' = Success(lus)
            /\ cmds' = RemoveAt(cmds, k)
            /\ ev' = [op |-> "success", target |-> cmds[k].targetLevel, before |-> lus]
            /\ UNCHANGED <<cfg, visible, layerVisible, frozen, issued>>
            /\ UNCHANGED notPipeVars

\* A command fails.
PFail ==
    \E k \in DOMAIN cmds :
        /\ cmds[k].status = "executing"
        /\ lus' = HandlingError(lus, cmds[k].targetLevel)
        /\ cmds' = RemoveAt(cmds, k)
        /\ ev' = [op |-> "failure", target |-> cmds[k].targetLevel, before |-> lus]
        /\ UNCHANGED <<cfg, nl, visible, layerVisible, frozen, issued>>
        /\ UNCHANGED notPipeVars

\* The node comes into view or leaves it.
PSetMaterialVisible ==
    /\ visible' = ~visible
    /\ UNCHANGED <<cfg, lus, nl, layerVisible, frozen, cmds, ev, issued>>
    /\ UNCHANGED notPipeVars

PSetLayerVisible ==
    /\ layerVisible' = ~layerVisible
    /\ UNCHANGED <<cfg, lus, nl, visible, frozen, cmds, ev, issued>>
    /\ UNCHANGED notPipeVars

PSetFrozen ==
    /\ frozen' = ~frozen
    /\ UNCHANGED <<cfg, lus, nl, visible, layerVisible, cmds, ev, issued>>
    /\ UNCHANGED notPipeVars

Next ==
    \/ PSetup
    \/ PUpdate
    \/ PDrop
    \/ PExecute
    \/ PComplete
    \/ PFail
    \/ PSetMaterialVisible
    \/ PSetLayerVisible
    \/ PSetFrozen

Spec == Init /\ [][Next]_vars

\* Every command fails, the node stays in view, the layer visible and not
\* frozen; frames keep coming and the scheduler serves its commands.
NextFailing == PSetup \/ PUpdate \/ PExecute \/ PFail

SpecFailing ==
    /\ Init
    /\ [][NextFailing]_vars
    /\ WF_vars(PUpdate)
    /\ WF_vars(PExecute)
    /\ WF_vars(PFail)

(***************************************************************************)
(* Claims on the update of a (node, layer) pair                            *)
(***************************************************************************)
\* C1: a command is issued only from a state in which canTryUpdate() is
\* true, the state is PENDING as long as the command is unresolved, and at
\* no time two commands of the pair are unresolved.
C1_AtMostOneInFlight ==
    /\ Len(cmds) <= 1
    /\ \A k \in DOMAIN cmds :
         /\ CanTryUpdate(cmds[k].before)
         /\ lus.state = "PENDING"

\* C1, witness: the second command of the pair is unresolved and a frame
\* has updated the node meanwhile without issuing another one.
C1_Witness ==
    /\ Len(cmds) = 1
    /\ issued = 2
    /\ ev.op = "return"
    /\ ev.before.state = "PENDING"
    /\ visible /\ layerVisible /\ ~frozen

\* The zoom of the node is within layer.zoom.
InRange == cfg.node.zoom >= cfg.zoomMin /\ cfg.node.zoom <= cfg.zoomMax

C7_DroppedStaysEligible ==
    ev.op = "drop" => (lus = ev.before /\ CanTryUpdate(lus))

\* C8: once DEFINITIVE the state stays DEFINITIVE, canTryUpdate() is false
\* in DEFINITIVE and in PENDING, and no step issues a command from a state
\* in which canTryUpdate() is false.
C8_DefinitiveIsTerminal ==
    [][/\ lus.state = "DEFINITIVE" => lus'.state = "DEFINITIVE"
       /\ lus.state \in {"DEFINITIVE", "PENDING"}
            => (~CanTryUpdate(lus) /\ issued' = issued /\ Len(cmds') <= Len(cmds))]_vars

\* C8, witness: a frame has updated a node whose state was DEFINITIVE, its
\* holder having the level of the node after a command succeeded.
C8_Witness ==
    /\ ev.op = "return"
    /\ ev.before.state = "DEFINITIVE"
    /\ lus.state = "DEFINITIVE"
    /\ issued >= 1
    /\ visible /\ layerVisible /\ ~frozen

MinTraffic(cmd) ==
    /\ cfg.strategy = "STRATEGY_MIN_NETWORK_TRAFFIC"
    /\ cmd.before.lowestLevelError = Infinity

\* C9, as stated, for the scenario: the node has no texture of the layer
\* and the source covers levels above the level of the node; the first
\* request targets the level above the level of the node.
C9_FirstRequestAboveNodeLevel ==
    \A k \in DOMAIN cmds :
        (/\ MinTraffic(cmds[k])
         /\ issued = 1
         /\ cmds[k].levelAtRequest = EMPTY_TEXTURE_ZOOM
         /\ cfg.sourceZoomMax > cfg.node.zoom)
            => cmds[k].extentsSource[1].zoom = cfg.node.zoom + 1

\* C9, amended: with the strategy minimizing the network traffic and no
\* failure recorded, every request targets the level above the level of
\* the holder, never above the level of the destination extents of the
\* node; after a command delivered its texture, the request of the next
\* frame, if any, targets the next level.
C9_NextLevelUpToDestination ==
    /\ \A k \in DOMAIN cmds :
         MinTraffic(cmds[k])
            => /\ cmds[k].extentsSource[1].zoom = cmds[k].levelAtRequest + 1
               /\ cmds[k].extentsSource[1].zoom <= cfg.node.zoom
    /\ (/\ ev.op = "success"
        /\ cfg.strategy = "STRATEGY_MIN_NETWORK_TRAFFIC"
        /\ lus.lowestLevelError = Infinity
        /\ nl.textures[0] = Texture(TiledExtentParent(cfg.node, ev.target)))
            => LET r == UpdateLayeredMaterialNodeImagery(cfg, TRUE, TRUE, FALSE, lus, nl, cmds)
               IN  r.op = "issue"
                     => r.cmds[Len(r.cmds)].extentsSource[1].zoom = ev.target + 1

\* C9, witness: the holder was empty, a first command delivered the
\* texture of level 0 and the second request targets level 1.
C9_Witness ==
    /\ cfg.parent = NoHolder
    /\ issued = 2
    /\ Len(cmds) = 1
    /\ MinTraffic(cmds[1])
    /\ cmds[1].levelAtRequest = 0
    /\ cmds[1].extentsSource[1].zoom = 1
    /\ cfg.node.zoom = MaxZoom

(***************************************************************************)
(* The scene: the promise returned by the update, another node of the      *)
(* hierarchy, the removal of the layer                                     *)
(***************************************************************************)
\* The getData calls made on the layer in the scene.
MaxSceneLoads == 1

\* What the scheduler can resolve a command with: a list of at most one
\* result per destination extent, each a texture of the source extent, null
\* or undefined.
ResultLists(cmd) ==
    UNION { { rs \in [1 .. n -> {Null, Undefined} \cup
                                { Texture(cmd.extentsSource[k]) : k \in DOMAIN cmd.extentsSource }] :
                \A k \in 1 .. n : IsTexture(rs[k]) => rs[k] = Texture(cmd.extentsSource[k]) } :
            n \in 0 .. Len(cmd.extentsDestination) }

\* results.map((texture, index) => (texture != null ? texture :
\*     { isTexture: false, extent: extentsDestination[index] }))
MapResults(results, extentsDestination) ==
    [k \in DOMAIN results |->
        IF results[k] = Null \/ results[k] = Undefined
        THEN Placeholder(extentsDestination[k])
        ELSE results[k]]

\* computePitchs reads textures[i].extent for every destination extent: it
\* throws a TypeError when textures[i] is undefined.
ComputePitchsThrows(textures, extentsDestination) ==
    \E i \in DOMAIN extentsDestination : i \notin DOMAIN textures

\* The fulfilment callback without its test on the state of the pair
OnFulfilledUnguarded(s, holder, cmd, results) ==
    LET textures == MapResults(results, cmd.extentsDestination)
    IN  IF ComputePitchsThrows(textures, cmd.extentsDestination)
        THEN [lus |-> s, nl |-> holder, threw |-> TRUE]
        ELSE [lus |-> Success(s),
              nl |-> SetTextures(IF holder = NoHolder THEN EmptyHolder ELSE holder,
                                 textures,
                                 ComputePitchs(textures, cmd.extentsDestination)),
              threw |-> FALSE]

\* The fulfilment callback of scheduler.execute(command).then: the state
\* and the holder of the pair after it, and whether it threw.
OnFulfilled(s, holder, cmd, results) ==
    LET textures == MapResults(results, cmd.extentsDestination)
    IN  IF s = NoState
        THEN [lus |-> s, nl |-> holder, threw |-> FALSE]
        ELSE IF ComputePitchsThrows(textures, cmd.extentsDestination)
        THEN [lus |-> s, nl |-> holder, threw |-> TRUE]
        ELSE [lus |-> Success(s),
              nl |-> SetTextures(holder, textures,
                                 ComputePitchs(textures, cmd.extentsDestination)),
              threw |-> FALSE]

\* The promise of then(onFulfilled, onRejected): rejected when the callback
\* that ran threw, fulfilled otherwise.
Settlement(threw) == IF threw THEN "rejected" ELSE "fulfilled"

\* removeLayeredMaterialNodeTile on a node: the holder of the layer is
\* removed from the material and the entry of layerUpdateState deleted.
RemoveLayeredMaterialNodeTile(s, holder) == [lus |-> NoState, nl |-> NoHolder]

\* The cache cleared whatever clearCache
DeleteCacheAlways(c, clearCache) == <<>>

\* RasterLayer.delete: the cache after the call.
DeleteCache(c, clearCache) == IF clearCache THEN <<>> ELSE c

\* Notification on every path of the update
NotifiesChangeAlways(op) == TRUE

\* Whether a path of updateLayeredMaterialNodeImagery calls
\* context.view.notifyChange(node, false): after the initialisation that
\* leaves the holder at the least level of the source or above, and after
\* noData.
NotifiesChange(op) == op \in {"init", "noData"}

\* A frame on an attached layer.
SUpdate ==
    \E r \in {UpdateLayeredMaterialNodeImagery(cfg, visible, layerVisible, frozen, lus, nl, cmds)} :
        /\ attached
        /\ (r.op = "issue") => (Len(cmds) < MaxCommands /\ issued < MaxIssued)
        /\ lus' = r.lus
        /\ nl' = r.nl
        /\ cmds' = r.cmds
        /\ ev' = [op |-> r.op, target |-> r.target, before |-> lus]
        /\ issued' = IF r.op = "issue" THEN issued + 1 ELSE issued
        /\ notified' = NotifiesChange(r.op)
        /\ UNCHANGED <<cfg, visible, layerVisible, frozen>>
        /\ UNCHANGED <<settled, sibling, siblingHasTile, attached>>
        /\ UNCHANGED <<elevationVars, utilVars>>
        /\ UNCHANGED holderVars
        /\ UNCHANGED cacheVars

\* The scheduler resolves a command with results.
SFulfil ==
    \E k \in DOMAIN cmds : \E results \in ResultLists(cmds[k]) :
        \E r \in {OnFulfilled(lus, nl, cmds[k], results)} :
            /\ cmds[k].status = "executing"
            /\ lus' = r.lus
            /\ nl' = r.nl
            /\ settled' = Settlement(r.threw)
            /\ cmds' = RemoveAt(cmds, k)
            /\ ev' = [op |-> IF r.threw THEN "throw" ELSE "success",
                      target |-> cmds[k].targetLevel, before |-> lus]
            /\ notified' = FALSE
            /\ UNCHANGED <<cfg, visible, layerVisible, frozen, issued>>
            /\ UNCHANGED <<sibling, siblingHasTile, attached>>
            /\ UNCHANGED <<elevationVars, utilVars>>
            /\ UNCHANGED holderVars
            /\ UNCHANGED cacheVars

\* The scheduler rejects a command: the fetch or the conversion failed.
SReject ==
    \E k \in DOMAIN cmds :
        /\ cmds[k].status = "executing"
        /\ lus' = HandlingError(lus, cmds[k].targetLevel)
        /\ settled' = Settlement(FALSE)
        /\ cmds' = RemoveAt(cmds, k)
        /\ ev' = [op |-> "failure", target |-> cmds[k].targetLevel, before |-> lus]
        /\ notified' = FALSE
        /\ UNCHANGED <<cfg, nl, visible, layerVisible, frozen, issued>>
        /\ UNCHANGED <<sibling, siblingHasTile, attached>>
        /\ UNCHANGED <<elevationVars, utilVars>>
        /\ UNCHANGED holderVars
        /\ UNCHANGED cacheVars

\* The other node is updated for the layer: its state is created with its
\* holder, a command is issued for it, or its command is answered.
SSibling ==
    /\ attached \/ sibling.state = "PENDING"
    /\ \E next \in (IF sibling = NoState THEN {NewLayerUpdateState}
                    ELSE IF CanTryUpdate(sibling) THEN {NewTry(sibling)}
                    ELSE IF sibling.state = "PENDING"
                         THEN {Success(sibling)}
                    ELSE {}) :
        /\ sibling' = next
        /\ siblingHasTile' = TRUE
    /\ UNCHANGED <<settled, attached, notified>>
    /\ UNCHANGED <<elevationVars, utilVars>>
    /\ UNCHANGED pipeVars
    /\ UNCHANGED holderVars
    /\ UNCHANGED cacheVars

\* A command being executed, data of the layer is asked for and put in the
\* cache of the layer.
SGetData ==
    /\ \E k \in DOMAIN cmds : cmds[k].status = "executing"
    /\ Len(promises) < MaxSceneLoads
    /\ CGetData

\* RasterLayer.delete(clearCache), the layer leaving the view.
SDelete ==
    \E clearCache \in BOOLEAN :
        \E r \in {RemoveLayeredMaterialNodeTile(lus, nl)} :
            /\ attached
            /\ ev.op # "none"
            /\ cache' = DeleteCache(cache, clearCache)
            /\ promises' = MarkDropped(promises, DeleteCache(cache, clearCache))
            /\ lus' = r.lus
            /\ nl' = r.nl
            /\ sibling' = RemoveLayeredMaterialNodeTile(sibling, NoHolder).lus
            /\ siblingHasTile' = FALSE
            /\ attached' = FALSE
            /\ ev' = [op |-> IF clearCache THEN "deleteClear" ELSE "delete",
                      target |-> -1, before |-> lus]
            /\ UNCHANGED <<cfg, visible, layerVisible, frozen, cmds, issued>>
            /\ UNCHANGED <<callers, lastGet, cacheLifeTime, isVectorSource>>
            /\ UNCHANGED <<settled, notified>>
            /\ UNCHANGED <<elevationVars, utilVars>>
            /\ UNCHANGED holderVars

NextScene ==
    \/ PSetup
    \/ SUpdate
    \/ PDrop
    \/ PExecute
    \/ SFulfil
    \/ SReject
    \/ SSibling
    \/ SGetData
    \/ SDelete
    \/ PSetMaterialVisible

SpecScene == Init /\ [][NextScene]_vars

(***************************************************************************)
(* Claims on the scene                                                     *)
(***************************************************************************)
\* C11, as stated: whatever the outcome of a command and whatever its
\* results contain, the promise returned to the update loop does not
\* reject.
C11_PromiseNeverRejects == settled # "rejected"

\* C11 for the other nodes: the answer to a command of the pair, a result
\* or an error, leaves the update state of the other node as it is.
C11_OtherNodesUnchanged ==
    [][(ev' # ev /\ ev'.op \in {"success", "throw", "failure"}) => sibling' = sibling]_vars

\* A step in which the fulfilment callback of a command runs.
Fulfilment == Len(cmds') < Len(cmds) /\ ev'.op \in {"success", "throw"}

Deletion == attached /\ ~attached'

\* The holder of the layer and the layerUpdateState entry are removed from
\* every node.
RemovedFromEveryNode ==
    /\ lus = NoState
    /\ nl = NoHolder
    /\ sibling = NoState
    /\ ~siblingHasTile

\* C13, as stated: RasterLayer.delete, whatever its clearCache argument,
\* removes the holder and the layerUpdateState entry of the layer from
\* every node and leaves the cache of the layer empty.
C13_DeleteLeavesCacheEmpty ==
    [][Deletion => (RemovedFromEveryNode' /\ cache' = <<>>)]_vars

\* C13, amended: RasterLayer.delete removes the holder and the
\* layerUpdateState entry of the layer from every node; it leaves the cache
\* empty when clearCache is true and as it was when clearCache is false.
C13_DeleteClearsCacheOnDemand ==
    [][Deletion =>
          /\ RemovedFromEveryNode'
          /\ cache' = (IF ev'.op = "deleteClear" THEN <<>> ELSE cache)]_vars

\* C13 witness: the layer was deleted with clearCache false from nodes that
\* had a state and a holder for it, its cache holding an entry.
C13_Witness ==
    /\ ev.op = "delete"
    /\ ev.before # NoState
    /\ RemovedFromEveryNode
    /\ cache # <<>>

\* The last step on the pair was a frame of the update.
Updated == ev.op \in {"return", "definitive", "init", "noData", "issue"}

\* The last step on the pair was the fulfilment callback of a command.
CalledBack == ev.op \in {"success", "throw"}

\* The last step installed the textures of the results in the holder.
InstalledTextures == ev.op = "success" /\ ev.before # NoState

\* The last step determined that no further update is possible.
DeterminedNoMoreUpdate ==
    /\ Updated
    /\ lus.state = "DEFINITIVE"
    /\ ev.before.state # "DEFINITIVE"

\* The last step created the state of the pair and left a holder at the
\* least level of the source or above, inherited from the parent.
InheritedAtInit ==
    /\ Updated
    /\ ev.before = NoState
    /\ lus = NewLayerUpdateState
    /\ nl # NoHolder
    /\ nl.level >= cfg.sourceZoomMin

\* The last step recorded a level without data.
RecordedNoData ==
    /\ Updated
    /\ lus.state = "IDLE"
    /\ lus.lowestLevelError < ev.before.lowestLevelError

ElevationTileAt(level) == [isTile |-> TRUE, level |-> level]

\* The values of cmd.targetLevel: buildCommand gives the command no
\* targetLevel property, reading it gives undefined.
CommandTargetLevel(cmd) == {}

\* cmd.targetLevel <= level: false when cmd.targetLevel is undefined.
TargetLevelAtMost(cmd, level) == \E t \in CommandTargetLevel(cmd) : t <= level

\* refinementCommandCancellationFn, for a colour or an elevation layer.
EarlyDropFunction(cmd, s, materialVisible, elevationLayer, tile) ==
    \/ elevationLayer /\ tile.isTile /\ TargetLevelAtMost(cmd, tile.level)
    \/ RefinementCommandCancellationFn(cmd, s, materialVisible)

\* The layer of the pair is an elevation layer.
ESetup ==
    /\ ev = NoEvent
    /\ ~isElevationLayer
    /\ isElevationLayer' = TRUE
    /\ UNCHANGED elevationTile
    /\ UNCHANGED <<holderVars, cacheVars, pipeVars, sceneVars, utilVars>>

\* The material of the node gets an elevation tile, or its elevation tile
\* a texture of another level.
ESetElevationTile ==
    \E level \in 0 .. MaxZoom :
        /\ isElevationLayer
        /\ elevationTile.level < level
        /\ elevationTile' = ElevationTileAt(level)
        /\ UNCHANGED isElevationLayer
        /\ UNCHANGED <<holderVars, cacheVars, pipeVars, sceneVars, utilVars>>

\* The scheduler takes a command whose earlyDropFunction returns true.
EDrop ==
    \E k \in DOMAIN cmds :
        /\ Served(k)
        /\ EarlyDropFunction(cmds[k], lus, visible, isElevationLayer, elevationTile)
        /\ cmds' = RemoveAt(cmds, k)
        /\ ev' = [op |-> "drop", target |-> cmds[k].targetLevel, before |-> cmds[k].before]
        /\ UNCHANGED <<cfg, lus, nl, visible, layerVisible, frozen, issued>>
        /\ UNCHANGED <<holderVars, cacheVars, sceneVars, elevationVars, utilVars>>

\* The scheduler takes a command whose earlyDropFunction returns false and
\* executes it.
EExecute ==
    \E k \in DOMAIN cmds :
        /\ Served(k)
        /\ ~EarlyDropFunction(cmds[k], lus, visible, isElevationLayer, elevationTile)
        /\ cmds' = [cmds EXCEPT ![k].status = "executing"]
        /\ ev' = [op |-> "execute", target |-> cmds[k].targetLevel, before |-> lus]
        /\ UNCHANGED <<cfg, lus, nl, visible, layerVisible, frozen, issued>>
        /\ UNCHANGED <<holderVars, cacheVars, sceneVars, elevationVars, utilVars>>

NextElevation ==
    \/ PSetup
    \/ ESetup
    \/ ESetElevationTile
    \/ SUpdate
    \/ EDrop
    \/ EExecute
    \/ SFulfil
    \/ SReject
    \/ PSetMaterialVisible

SpecElevation == Init /\ [][NextElevation]_vars

\* A step in which the scheduler executes a command of the pair.
Dequeued ==
    /\ ev'.op = "execute"
    /\ \E k \in DOMAIN cmds :
         /\ cmds[k].status = "queued"
         /\ cmds' = [cmds EXCEPT ![k].status = "executing"]

\* C15, as stated: for an elevation layer, a command is not executed but
\* dropped when, at dequeue time, the node holds an elevation tile whose
\* level is at least the level the command would deliver.
C15_SupersededIsDropped ==
    [][~(/\ Dequeued
         /\ isElevationLayer
         /\ elevationTile.isTile
         /\ elevationTile.level >= ev'.target)]_vars

(***************************************************************************)
(* Levels without data                                                     *)
(***************************************************************************)
\* The node stays in view, the layer visible, attached and not frozen;
\* frames keep coming, the scheduler serves its commands and resolves them
\* with results.
NextNoData == PSetup \/ SUpdate \/ PExecute \/ SFulfil

SpecNoData ==
    /\ Init
    /\ [][NextNoData]_vars
    /\ WF_vars(SUpdate)
    /\ WF_vars(PExecute)
    /\ WF_vars(SFulfil)

\* The level of the texture the node has for the layer.
CurrentLevel == IF nl = NoHolder THEN EMPTY_TEXTURE_ZOOM ELSE nl.level

\* Every level above the level of the texture of the node, up to the zoom
\* of the node, is outside the limits of the source.
AllOutside ==
    \A level \in (CurrentLevel + 1) .. cfg.node.zoom : ~ExtentInsideLimit(cfg, level)

MaxSide == 2

\* The greatest elevation sample
MaxSample == 1

\* The elevation samples, and the values of noDataValue
Samples == -1 .. MaxSample

\* The square data arrays
DataArrays == UNION { [1 .. (n * n) -> Samples] : n \in 1 .. MaxSide }

\* Math.sqrt(l), l being a square
Sqrt(l) == CHOOSE n \in 0 .. l : n * n = l

\* The four corner samples: data[0], data[sqrt(l) - 1], data[l - sqrt(l)]
\* and data[l - 1], the first entry of a sequence being data[0].
Corners(data) ==
    LET l == Len(data)
    IN  <<data[1], data[Sqrt(l)], data[l - Sqrt(l) + 1], data[l]>>

\* The check with a corner equal to noDataValue accepted
CheckCornersAtLeast(data, noData) ==
    \A k \in 1 .. 4 : Corners(data)[k] >= noData

\* checkNodeElevationTextureValidity
CheckNodeElevationTextureValidity(data, noData) ==
    \A k \in 1 .. 4 : Corners(data)[k] > noData

\* The default of the dataParent parameter: (i) => 0
DefaultDataParent(data) == [i \in DOMAIN data |-> 0]

\* insertSignificantValuesFromParent
InsertSignificantValuesFromParent(data, dataParent, noData) ==
    [i \in DOMAIN data |-> IF data[i] = noData THEN dataParent[i] ELSE data[i]]

Validity(b) == IF b THEN "valid" ELSE "invalid"

InitData ==
    /\ HolderAtRest
    /\ CacheAtRest
    /\ PipeAtRest
    /\ NodeAtRest
    /\ WorkerAtRest
    /\ GridAtRest
    /\ OrderAtRest
    /\ ReadyAtRest
    /\ dataElevation \in DataArrays
    /\ noDataValue \in Samples
    /\ validity = "none"
    /\ dataReplaced = <<>>
    /\ parentDataElevation = NoParentData

\* checkNodeElevationTextureValidity(data, noDataValue)
DCheck ==
    /\ validity' = Validity(CheckNodeElevationTextureValidity(dataElevation, noDataValue))
    /\ UNCHANGED <<dataElevation, noDataValue, dataReplaced, parentDataElevation>>
    /\ UNCHANGED <<gridVars, orderVars, readyVars, nodeVars, workerVars>>
    /\ UNCHANGED notUtilVars

\* insertSignificantValuesFromParent(data, undefined, noDataValue)
DInsert ==
    /\ dataReplaced' = InsertSignificantValuesFromParent(
                           dataElevation, DefaultDataParent(dataElevation), noDataValue)
    /\ UNCHANGED <<dataElevation, noDataValue, validity, parentDataElevation>>
    /\ UNCHANGED <<gridVars, orderVars, readyVars, nodeVars, workerVars>>
    /\ UNCHANGED notUtilVars

\* replaceNoDataValueFromTexture on a holder without texture: the data is
\* checked, and replaced when the check fails.
DReplaceNoDataValueFromTexture ==
    LET valid == CheckNodeElevationTextureValidity(dataElevation, noDataValue)
    IN  /\ validity' = Validity(valid)
        /\ dataReplaced' = IF valid THEN <<>>
                           ELSE InsertSignificantValuesFromParent(
                                    dataElevation, DefaultDataParent(dataElevation), noDataValue)
        /\ UNCHANGED <<dataElevation, noDataValue, parentDataElevation>>
        /\ UNCHANGED <<gridVars, orderVars, readyVars, nodeVars, workerVars>>
        /\ UNCHANGED notUtilVars

NextData == DCheck \/ DInsert \/ DReplaceNoDataValueFromTexture

SpecData == InitData /\ [][NextData]_vars

\* The number of corner samples equal to noDataValue.
CornersAtNoData ==
    Cardinality({ k \in 1 .. 4 : Corners(dataElevation)[k] = noDataValue })

\* C17: when at least two of the four corner samples equal noDataValue the
\* check returns false; and insertSignificantValuesFromParent called
\* without parent data sets every entry equal to noDataValue to 0 and
\* leaves every other entry as it is.
C17_CornersAndReplacement ==
    /\ (validity # "none" /\ CornersAtNoData >= 2) => validity = "invalid"
    /\ dataReplaced # <<>> =>
         /\ Len(dataReplaced) = Len(dataElevation)
         /\ \A i \in DOMAIN dataElevation :
              dataReplaced[i] = (IF dataElevation[i] = noDataValue THEN 0
                                 ELSE dataElevation[i])

\* C17 witness: a 2 x 2 array with two corners at a noDataValue other than
\* 0 and two corners above it was found invalid and its data replaced.
C17_Witness ==
    /\ Len(dataElevation) = MaxSide * MaxSide
    /\ noDataValue # 0
    /\ CornersAtNoData = 2
    /\ \E i \in DOMAIN dataElevation : dataElevation[i] > noDataValue
    /\ validity = "invalid"
    /\ dataReplaced # <<>>
    /\ dataReplaced # dataElevation

(***************************************************************************)
(* The tile grid: tiledCovering (Core/Geographic/TileGrid.ts)              *)
(***************************************************************************)
\* The deepest zoom of the cells
MaxGridZoom == 2

\* The tile matrix set of the geographic projection: two tiles side by side
\* at zoom 0.
Tms4326 == [sTsX |-> 2, sTsY |-> 1, isInverted |-> TRUE]

\* The tile matrix sets: schemeTiles, and the rows counted from the north
\* or, for a set marked ':NI', from the south.
TileMatrixSets ==
    { Tms3857, Tms4326,
      [Tms3857 EXCEPT !.isInverted = FALSE], [Tms4326 EXCEPT !.isInverted = FALSE] }

\* The side of a tile of zoom 0, in units that make the centre of every
\* cell a whole number.
TileSide == Pow2(MaxGridZoom + 1)

\* getInfoTms: the global extent of a tile matrix set and its dimensions.
GetInfoTms(tms) ==
    [west |-> 0 - TileSide, south |-> 0 - TileSide,
     east |-> (0 - TileSide) + tms.sTsX * TileSide,
     north |-> (0 - TileSide) + tms.sTsY * TileSide,
     globalDimensionX |-> tms.sTsX * TileSide,
     globalDimensionY |-> tms.sTsY * TileSide,
     sTs |-> tms,
     isInverted |-> tms.isInverted]

\* getCountTiles
GetCountTiles(tms, zoom) == [x |-> Pow2(zoom) * tms.sTsX, y |-> Pow2(zoom) * tms.sTsY]

\* The cells of the tile matrix sets.
Cells ==
    UNION { { [tms |-> tms, zoom |-> z, row |-> r, col |-> c] :
                r \in 0 .. (GetCountTiles(tms, z).y - 1),
                c \in 0 .. (GetCountTiles(tms, z).x - 1) } :
            tms \in TileMatrixSets, z \in 0 .. MaxGridZoom }

\* The extent of a cell: its bounds in the projection of its set.
CellExtent(c) ==
    LET info == GetInfoTms(c.tms)
        count == GetCountTiles(c.tms, c.zoom)
        w == info.globalDimensionX \div count.x
        ht == info.globalDimensionY \div count.y
        south == IF c.tms.isInverted THEN info.north - (c.row + 1) * ht
                 ELSE info.south + c.row * ht
    IN  [tms |-> c.tms,
         west |-> info.west + c.col * w, east |-> info.west + (c.col + 1) * w,
         south |-> south, north |-> south + ht]

\* Math.round of the quotient a / b of two positive numbers
RoundDiv(a, b) == (2 * a + b) \div (2 * b)

\* Math.floor(Math.log2(n)), n >= 1
FloorLog2(n) == CHOOSE k \in 0 .. n : Pow2(k) <= n /\ n < Pow2(k + 1)

\* tiledCovering with the zoom computed without the scheme of the set
TiledCoveringWithoutScheme(e, tms) ==
    LET info == GetInfoTms(e.tms)
        zoom == FloorLog2(RoundDiv(info.globalDimensionX, e.east - e.west))
        countTiles == GetCountTiles(tms, zoom)
        x == (e.west + e.east) - 2 * info.west
        y == IF info.isInverted THEN 2 * info.north - (e.south + e.north)
             ELSE (e.south + e.north) - 2 * info.south
    IN  <<[tms |-> tms, zoom |-> zoom,
           row |-> (y * countTiles.y) \div (2 * info.globalDimensionY),
           col |-> (x * countTiles.x) \div (2 * info.globalDimensionX)]>>

\* tiledCovering, for an extent in the projection of the tile matrix set:
\* the zoom from the width of the extent, the row and the column from its
\* centre. x and y are twice the offsets of the centre.
TiledCovering(e, tms) ==
    LET info == GetInfoTms(e.tms)
        zoom == FloorLog2(RoundDiv(info.globalDimensionX,
                                   (e.east - e.west) * info.sTs.sTsX))
        countTiles == GetCountTiles(tms, zoom)
        x == (e.west + e.east) - 2 * info.west
        y == IF info.isInverted THEN 2 * info.north - (e.south + e.north)
             ELSE (e.south + e.north) - 2 * info.south
    IN  <<[tms |-> tms, zoom |-> zoom,
           row |-> (y * countTiles.y) \div (2 * info.globalDimensionY),
           col |-> (x * countTiles.x) \div (2 * info.globalDimensionX)]>>

InitGrid ==
    /\ HolderAtRest
    /\ CacheAtRest
    /\ PipeAtRest
    /\ NodeAtRest
    /\ WorkerAtRest
    /\ DataAtRest
    /\ OrderAtRest
    /\ ReadyAtRest
    /\ cell \in Cells
    /\ covering = <<>>

\* tiledCovering(extent of the cell, tile matrix set of the cell)
GTiledCovering ==
    /\ covering = <<>>
    /\ covering' = TiledCovering(CellExtent(cell), cell.tms)
    /\ UNCHANGED cell
    /\ UNCHANGED <<dataVars, orderVars, readyVars, nodeVars, workerVars>>
    /\ UNCHANGED notUtilVars

\* Another cell is taken.
GNextCell ==
    /\ covering # <<>>
    /\ cell' \in Cells
    /\ covering' = <<>>
    /\ UNCHANGED <<dataVars, orderVars, readyVars, nodeVars, workerVars>>
    /\ UNCHANGED notUtilVars

NextGrid == GTiledCovering \/ GNextCell

SpecGrid == InitGrid /\ [][NextGrid]_vars

\* C18: tiledCovering applied to the extent of a cell with the tile matrix
\* set of the cell returns that cell alone, and the extent rebuilt from the
\* indices returned has the bounds of the cell.
C18_CoveringRoundTrip ==
    covering # <<>> =>
        /\ covering = <<cell>>
        /\ CellExtent(covering[1]) = CellExtent(cell)

\* C18 witness: the covering of a cell of the deepest zoom of the
\* geographic set, neither in the first row nor in the first column.
C18_Witness ==
    /\ covering # <<>>
    /\ cell.tms = Tms4326
    /\ cell.zoom = MaxGridZoom
    /\ cell.row > 0
    /\ cell.col > cell.row

(***************************************************************************)
(* ImageryLayers: the sequence of the imagery layers                       *)
(* (Layer/RasterLayer.ts)                                                  *)
(***************************************************************************)
\* The most imagery layers
MaxLayers == 3

\* The sequences are a permutation of 0 .. n-1.
IsPermutation(layers) ==
    /\ \A k \in DOMAIN layers : layers[k].sequence \in 0 .. (Len(layers) - 1)
    /\ \A j, k \in DOMAIN layers : j # k => layers[j].sequence # layers[k].sequence

\* The arrays of n imagery layers whose sequences are a permutation.
LayerArrays ==
    UNION { { layers \in [1 .. n -> [id : 1 .. n, sequence : 0 .. (n - 1)]] :
                /\ \A k \in 1 .. n : layers[k].id = k
                /\ IsPermutation(layers) } :
            n \in 1 .. MaxLayers }

\* The layer of an id.
LayerOf(layers, id) == layers[CHOOSE k \in DOMAIN layers : layers[k].id = id]

\* Math.max(Math.min(newIndex, imageryLayers.length - 1), 0)
ClampIndex(newIndex, layers) == Max({Min(newIndex, Len(layers) - 1), 0})

\* The layer moved and no other sequence changed
MoveLayerAlone(layers, id, newIndex) ==
    [k \in DOMAIN layers |->
        IF layers[k].id = id
        THEN [layers[k] EXCEPT !.sequence = ClampIndex(newIndex, layers)]
        ELSE layers[k]]

\* moveLayerToIndex
MoveLayerToIndex(layers, id, newIndex) ==
    LET index == ClampIndex(newIndex, layers)
        oldIndex == LayerOf(layers, id).sequence
    IN  [k \in DOMAIN layers |->
            IF layers[k].id = id
            THEN [layers[k] EXCEPT !.sequence = index]
            ELSE IF layers[k].sequence > oldIndex /\ layers[k].sequence <= index
            THEN [layers[k] EXCEPT !.sequence = @ - 1]
            ELSE IF layers[k].sequence >= index /\ layers[k].sequence < oldIndex
            THEN [layers[k] EXCEPT !.sequence = @ + 1]
            ELSE layers[k]]

\* moveLayerDown
MoveLayerDown(layers, id) ==
    IF LayerOf(layers, id).sequence > 0
    THEN MoveLayerToIndex(layers, id, LayerOf(layers, id).sequence - 1)
    ELSE layers

\* moveLayerUp
MoveLayerUp(layers, id) ==
    IF LayerOf(layers, id).sequence < Len(layers) - 1
    THEN MoveLayerToIndex(layers, id, LayerOf(layers, id).sequence + 1)
    ELSE layers

InitOrder ==
    /\ HolderAtRest
    /\ CacheAtRest
    /\ PipeAtRest
    /\ NodeAtRest
    /\ WorkerAtRest
    /\ DataAtRest
    /\ GridAtRest
    /\ ReadyAtRest
    /\ imageryLayers \in LayerArrays
    /\ lastMove = NoMove

OMoveLayerToIndex ==
    \E k \in DOMAIN imageryLayers : \E newIndex \in -1 .. MaxLayers :
        /\ imageryLayers' = MoveLayerToIndex(imageryLayers, imageryLayers[k].id, newIndex)
        /\ lastMove' = [op |-> "moveLayerToIndex", id |-> imageryLayers[k].id,
                        newIndex |-> newIndex, before |-> imageryLayers]
        /\ UNCHANGED <<dataVars, gridVars, readyVars, nodeVars, workerVars>>
        /\ UNCHANGED notUtilVars

OMoveLayerDown ==
    \E k \in DOMAIN imageryLayers :
        /\ imageryLayers' = MoveLayerDown(imageryLayers, imageryLayers[k].id)
        /\ lastMove' = [op |-> "moveLayerDown", id |-> imageryLayers[k].id,
                        newIndex |-> imageryLayers[k].sequence - 1, before |-> imageryLayers]
        /\ UNCHANGED <<dataVars, gridVars, readyVars, nodeVars, workerVars>>
        /\ UNCHANGED notUtilVars

OMoveLayerUp ==
    \E k \in DOMAIN imageryLayers :
        /\ imageryLayers' = MoveLayerUp(imageryLayers, imageryLayers[k].id)
        /\ lastMove' = [op |-> "moveLayerUp", id |-> imageryLayers[k].id,
                        newIndex |-> imageryLayers[k].sequence + 1, before |-> imageryLayers]
        /\ UNCHANGED <<dataVars, gridVars, readyVars, nodeVars, workerVars>>
        /\ UNCHANGED notUtilVars

NextOrder == OMoveLayerToIndex \/ OMoveLayerDown \/ OMoveLayerUp

SpecOrder == InitOrder /\ [][NextOrder]_vars

\* The layers other than the moved one are in the same relative order
\* before and after.
OthersKeepOrder(before, after, id) ==
    \A j, k \in DOMAIN before :
        (before[j].id # id /\ before[k].id # id) =>
            ((before[j].sequence < before[k].sequence) <=>
             (after[j].sequence < after[k].sequence))

\* C19: after any sequence of moveLayerToIndex, moveLayerUp and
\* moveLayerDown calls the sequences are a permutation of 0 .. n-1; after a
\* call the moved layer has the sequence clamp(newIndex, 0, n-1) and the
\* other layers are in the same relative order as before.
C19_MovesKeepPermutation ==
    /\ IsPermutation(imageryLayers)
    /\ \E k \in DOMAIN imageryLayers : imageryLayers[k].sequence = 0
    /\ \E k \in DOMAIN imageryLayers : imageryLayers[k].sequence = Len(imageryLayers) - 1
    /\ lastMove # NoMove =>
         /\ Len(imageryLayers) = Len(lastMove.before)
         /\ \A k \in DOMAIN imageryLayers : imageryLayers[k].id = lastMove.before[k].id
         /\ LayerOf(imageryLayers, lastMove.id).sequence =
                ClampIndex(lastMove.newIndex, lastMove.before)
         /\ OthersKeepOrder(lastMove.before, imageryLayers, lastMove.id)

\* C19 witness: of three layers the first was moved to an index beyond the
\* last, and the two others moved down.
C19_Witness ==
    /\ Len(imageryLayers) = MaxLayers
    /\ lastMove.op = "moveLayerToIndex"
    /\ lastMove.newIndex > Len(imageryLayers) - 1
    /\ LayerOf(lastMove.before, lastMove.id).sequence = 0
    /\ LayerOf(imageryLayers, lastMove.id).sequence = Len(imageryLayers) - 1
    /\ \A k \in DOMAIN imageryLayers :
         imageryLayers[k].id # lastMove.id =>
             imageryLayers[k].sequence = lastMove.before[k].sequence - 1

(***************************************************************************)
(* Layer readiness: _promises, addInitializationStep, startup              *)
(* (Layer/RasterLayer.ts)                                                  *)
(***************************************************************************)
\* The most promises of a layer: source.whenReady and the initialization
\* steps
MaxPromises == 3

\* Promise.all of the first n promises is fulfilled: each is resolved.
AllResolved(ps, n) == \A i \in 1 .. n : ps[i] = "resolved"

\* Promise.all of the first n promises is rejected: one of them is.
AnyRejected(ps, n) == \E i \in 1 .. n : ps[i] = "rejected"

\* startup() is in the code that follows its await, which runs to its end
\* before anything else.
Running == startup \in {"ready", "added"}

InitReady ==
    /\ HolderAtRest
    /\ CacheAtRest
    /\ PipeAtRest
    /\ NodeAtRest
    /\ WorkerAtRest
    /\ DataAtRest
    /\ GridAtRest
    /\ OrderAtRest
    /\ ReadyAtRest

\* addInitializationStep: a promise is pushed on _promises.
RAddInitializationStep ==
    /\ ~Running
    /\ Len(layerPromises) < MaxPromises
    /\ layerPromises' = Append(layerPromises, "pending")
    /\ UNCHANGED <<awaited, startup, ready, whenReady>>
    /\ UNCHANGED <<dataVars, gridVars, orderVars, nodeVars, workerVars>>
    /\ UNCHANGED notUtilVars

\* The resolve function that addInitializationStep returned is called.
RResolveStep ==
    \E i \in 2 .. Len(layerPromises) :
        /\ ~Running
        /\ layerPromises[i] = "pending"
        /\ layerPromises' = [layerPromises EXCEPT ![i] = "resolved"]
        /\ UNCHANGED <<awaited, startup, ready, whenReady>>
        /\ UNCHANGED <<dataVars, gridVars, orderVars, nodeVars, workerVars>>
        /\ UNCHANGED notUtilVars

\* source.whenReady is resolved or rejected.
RSourceSettles ==
    \E outcome \in {"resolved", "rejected"} :
        /\ ~Running
        /\ layerPromises[1] = "pending"
        /\ layerPromises' = [layerPromises EXCEPT ![1] = outcome]
        /\ UNCHANGED <<awaited, startup, ready, whenReady>>
        /\ UNCHANGED <<dataVars, gridVars, orderVars, nodeVars, workerVars>>
        /\ UNCHANGED notUtilVars

\* startup() is called: await Promise.all(this._promises), with the
\* promises registered so far.
RStartup ==
    /\ startup = "none"
    /\ awaited' = Len(layerPromises)
    /\ startup' = "awaiting"
    /\ UNCHANGED <<layerPromises, ready, whenReady>>
    /\ UNCHANGED <<dataVars, gridVars, orderVars, nodeVars, workerVars>>
    /\ UNCHANGED notUtilVars

\* The await returns: this.ready = true
RAwaitReturns ==
    /\ startup = "awaiting"
    /\ AllResolved(layerPromises, awaited)
    /\ ready' = TRUE
    /\ startup' = "ready"
    /\ UNCHANGED <<layerPromises, awaited, whenReady>>
    /\ UNCHANGED <<dataVars, gridVars, orderVars, nodeVars, workerVars>>
    /\ UNCHANGED notUtilVars

\* this.source.onLayerAdded({ out: this }), which returns or throws; what
\* it throws is caught: this._reject(error)
ROnLayerAdded ==
    \E threw \in BOOLEAN :
        /\ startup = "ready"
        /\ startup' = IF threw THEN "done" ELSE "added"
        /\ whenReady' = IF threw THEN "rejected" ELSE whenReady
        /\ UNCHANGED <<layerPromises, awaited, ready>>
        /\ UNCHANGED <<dataVars, gridVars, orderVars, nodeVars, workerVars>>
        /\ UNCHANGED notUtilVars

\* this._resolve(this)
RResolve ==
    /\ startup = "added"
    /\ whenReady' = "resolved"
    /\ startup' = "done"
    /\ UNCHANGED <<layerPromises, awaited, ready>>
    /\ UNCHANGED <<dataVars, gridVars, orderVars, nodeVars, workerVars>>
    /\ UNCHANGED notUtilVars

\* The await throws: this._reject(error)
RAwaitThrows ==
    /\ startup = "awaiting"
    /\ AnyRejected(layerPromises, awaited)
    /\ whenReady' = "rejected"
    /\ startup' = "done"
    /\ UNCHANGED <<layerPromises, awaited, ready>>
    /\ UNCHANGED <<dataVars, gridVars, orderVars, nodeVars, workerVars>>
    /\ UNCHANGED notUtilVars

NextReady ==
    \/ RAddInitializationStep
    \/ RResolveStep
    \/ RSourceSettles
    \/ RStartup
    \/ RAwaitReturns
    \/ ROnLayerAdded
    \/ RResolve
    \/ RAwaitThrows

SpecReady == InitReady /\ [][NextReady]_vars

\* A step that sets ready or resolves whenReady.
BecomesReady == (~ready /\ ready') \/ (whenReady = "pending" /\ whenReady' = "resolved")

\* C20, as stated: ready becomes true and whenReady resolves only when
\* source.whenReady and every initialization step registered are resolved;
\* ready is true when whenReady is resolved; after the rejection of an
\* initialization promise whenReady is rejected and ready false.
C20_ReadyAfterEveryRegisteredStep ==
    /\ [][BecomesReady => AllResolved(layerPromises, Len(layerPromises))]_vars
    /\ [](whenReady = "resolved" => ready)
    /\ []((startup = "done" /\ AnyRejected(layerPromises, Len(layerPromises))) =>
              (whenReady = "rejected" /\ ~ready))

\* C20 for the promises registered before startup() was called: ready
\* becomes true and whenReady resolves only when each of them is resolved,
\* and the rejection of one of them rejects whenReady and leaves ready
\* false. A step registered later is not waited for.
C20_ReadyAfterEveryAwaitedStep ==
    /\ [][BecomesReady => (awaited >= 1 /\ AllResolved(layerPromises, awaited))]_vars
    /\ [](ready => startup # "none")
    /\ [](whenReady = "resolved" => ready)
    /\ []((startup = "done" /\ AnyRejected(layerPromises, awaited)) =>
              (whenReady = "rejected" /\ ~ready))

\* whenReady is resolved, after source.whenReady and a step registered
\* before startup(), while a step registered after it is unresolved.
C20_ResolvedBeforeLateStep ==
    /\ whenReady = "resolved"
    /\ ready
    /\ awaited >= 2
    /\ Len(layerPromises) > awaited
    /\ layerPromises[Len(layerPromises)] = "pending"

(***************************************************************************)
(* Claims on the level a command requests                                  *)
(***************************************************************************)
\* extentsDestination[0].zoom || node.level: the destination extent of the
\* node is its own tile.
DestinationLevel == ExtentsDestination(cfg)[1].zoom

\* The command is within the levels that may be requested: above the level
\* the holder had, at most the destination level, below every level
\* recorded as failing when it was issued.
RequestableLevel(cmd) ==
    /\ cmd.targetLevel > cmd.levelAtRequest
    /\ cmd.targetLevel <= DestinationLevel
    /\ cmd.targetLevel < cmd.before.lowestLevelError
    /\ cmd.extentsSource[1].zoom = cmd.targetLevel

\* C21: every command issued for a raster source targets a level above the
\* level of the holder and at most the destination level; the state
\* becomes PENDING only with such a command issued; the lowest level in
\* error never rises, a failure or a noData at a level lowers it to that
\* level at least, and every command targets a level below it, so that no
\* level recorded as failing is requested again.
C21_RequestedLevelInBounds ==
    /\ [](\A k \in DOMAIN cmds : RequestableLevel(cmds[k]))
    /\ [][/\ (Len(cmds') > Len(cmds))
               => (/\ RequestableLevel(cmds'[Len(cmds')])
                   /\ cmds'[Len(cmds')].levelAtRequest = nl'.level
                   /\ cmds'[Len(cmds')].before.lowestLevelError = lus'.lowestLevelError
                   /\ lus'.state = "PENDING")
          /\ (lus # NoState /\ lus.state # "PENDING" /\ lus'.state = "PENDING")
               => Len(cmds') = Len(cmds) + 1
          /\ (lus # NoState) => lus'.lowestLevelError <= lus.lowestLevelError
          /\ (lus # NoState /\ lus.state # "DEFINITIVE"
                /\ ev' # ev /\ ev'.op \in {"failure", "noData"})
               => lus'.lowestLevelError <= ev'.target]_vars

\* C21, witness: a command of level 1 failed for a node of level 2 whose
\* holder is empty, and the command issued next targets level 0.
C21_Witness ==
    /\ Len(cmds) = 1
    /\ issued = 2
    /\ cmds[1].before.lowestLevelError = 1
    /\ cmds[1].targetLevel = 0
    /\ cmds[1].levelAtRequest = EMPTY_TEXTURE_ZOOM
    /\ cfg.node.zoom = MaxZoom

(***************************************************************************)
(* Claims on the protocol of the update state                              *)
(***************************************************************************)
\* C22, as stated: success, failure and noData are applied to the state of
\* the pair while it is PENDING; noData is never recorded on a state that
\* is IDLE.
C22_AnsweredWhilePending ==
    (ev.op \in {"success", "failure", "noData"} /\ ev.before # NoState)
        => ev.before.state = "PENDING"

\* C22 for success and failure, the layer staying on the node: both are
\* applied while the state is PENDING. noData is recorded by the frame
\* itself, on the state it found IDLE, and leaves it IDLE.
C22_CommandAnsweredWhilePending ==
    /\ (ev.op \in {"success", "failure"}) => ev.before.state = "PENDING"
    /\ (ev.op = "noData" /\ ev.before # NoState)
         => (ev.before.state = "IDLE" /\ lus.state = "IDLE")

\* noData was recorded on a state that a failure had left IDLE.
C22_NoDataOnIdle ==
    /\ ev.op = "noData"
    /\ ev.before.state = "IDLE"
    /\ ev.before.lowestLevelError # Infinity
    /\ lus.lowestLevelError = ev.target

(***************************************************************************)
(* The textures that a call on a holder disposes                           *)
(***************************************************************************)
\* disposeAtIndexes: texture.dispose() on the valid textures of the slots
DisposedAtIndexes(holder, indexes) ==
    { holder.textures[i] : i \in { j \in indexes : IsTexture(holder.textures[j]) } }

\* The slots that disposeRedrawnTextures disposes: every slot when each of
\* the new textures is to be written (dispose(false)), the slots to be
\* written otherwise.
RedrawnIndexes(holder, newTextures) ==
    LET validTextureIndexes ==
            { i \in 0 .. (Len(newTextures) - 1) :
                ShouldWriteTextureAtIndex(holder, i, newTextures[i + 1]) }
    IN  IF Cardinality(validTextureIndexes) = Len(newTextures)
        THEN Slots
        ELSE validTextureIndexes

\* The textures that setTextures disposes
DisposedBySetTextures(holder, newTextures) ==
    DisposedAtIndexes(holder, RedrawnIndexes(holder, newTextures))

\* The textures that dispose disposes
DisposedByDispose(holder) == DisposedAtIndexes(holder, Slots)

\* The slots that setTextures writes
Rewritten(holder, newTextures) ==
    { i \in 0 .. (Len(newTextures) - 1) :
        ShouldWriteTextureAtIndex(holder, i, newTextures[i + 1]) }

\* C23, as stated: setTextures disposes and discards only the slots that
\* the new textures overwrite; every other slot, those beyond the length
\* of the new list and those whose valid texture wins over a placeholder
\* included, holds its previous texture, not disposed, after the call.
C23_OtherSlotsKept ==
    \A ts \in CandidateLists(hExt) : \A i \in Slots \ Rewritten(h, ts) :
        /\ SetTextures(h, ts, ComputePitchs(ts, hExt)).textures[i] = h.textures[i]
        /\ i \notin RedrawnIndexes(h, ts)

\* C23 when some new texture is refused: the slots that are not rewritten
\* keep their textures, not disposed.
C23_OtherSlotsKeptWhenOneRefused ==
    \A ts \in CandidateLists(hExt) :
        (Cardinality(Rewritten(h, ts)) # Len(ts))
            => \A i \in Slots \ Rewritten(h, ts) :
                 /\ SetTextures(h, ts, ComputePitchs(ts, hExt)).textures[i] = h.textures[i]
                 /\ i \notin RedrawnIndexes(h, ts)

\* The holder has two valid textures after setTextures, and a list of one
\* valid texture would be written in the first slot.
C23_TwoSlotsHeld ==
    /\ call.op = "setTextures"
    /\ Len(hExt) = 2
    /\ IsTexture(h.textures[0]) /\ IsTexture(h.textures[1])
    /\ Rewritten(h, <<Texture(hExt[1])>>) = {0}

(***************************************************************************)
(* Claims on the slots that initFromParent binds                           *)
(***************************************************************************)
\* C24, as stated: after initFromParent on an empty holder, every slot i
\* that holds a texture holds the parent texture matched with extents[i],
\* with the offset of extents[i] inside it, also when an earlier child
\* extent found no parent texture containing it.
C24_SlotsAlignedWithExtents ==
    (h = EmptyHolder /\ p # NoHolder /\ ~SortRaises(p.textures))
        => LET r == InitFromParent(h, p, hExt)
               sorted == SortBestParentTextures(p.textures)
           IN  \A i \in SlotsOf(hExt) :
                   Truthy(r.textures[i])
                       => /\ r.textures[i] = FindMatchingParentTexture(sorted, hExt[i + 1])
                          /\ r.offsetScales[i] =
                                OffsetToParent(hExt[i + 1], ExtentOf(r.textures[i]))

\* The parent holds a texture that contains the second extent of the
\* empty holder of the child and none that contains the first.
C24_FirstExtentUnmatched ==
    /\ h = EmptyHolder
    /\ p # NoHolder
    /\ ~SortRaises(p.textures)
    /\ Len(hExt) = 2
    /\ ~HasExtent(FindMatchingParentTexture(SortBestParentTextures(p.textures), hExt[1]))
    /\ HasExtent(FindMatchingParentTexture(SortBestParentTextures(p.textures), hExt[2]))
    /\ InitFromParent(h, p, hExt).textures[0] =
          FindMatchingParentTexture(SortBestParentTextures(p.textures), hExt[2])

(***************************************************************************)
(* RasterElevationTile.setTextures: the no-data values of the texture it   *)
(* installs (Renderer/RasterTile.ts)                                       *)
(***************************************************************************)
\* The side of the largest texture installed
MaxInstallSide == 3

\* The greatest sample of an installed texture
MaxPixel == 1

Pixels == 0 .. MaxPixel

\* The square data arrays of the textures installed
PixelArrays == UNION { [1 .. (n * n) -> Pixels] : n \in 1 .. MaxInstallSide }

\* parentTexture.image is null: parentDataElevation is null.
NullParentData == [kind |-> "null", data |-> <<>>]

\* The data of the texture held before, read at the sample of the parent
\* that corresponds to each sample of the new texture (dataParent).
ParentData(data) ==
    { [kind |-> "data", data |-> [i \in DOMAIN data |-> v]] : v \in Pixels }

\* insertSignificantValuesFromParent called with null for dataParent: the
\* default of the parameter stands for undefined only, and dataParent(i)
\* raises a TypeError at the first sample equal to noDataValue.
InsertThrows(data, parent, noData) ==
    parent.kind = "null" /\ \E i \in DOMAIN data : data[i] = noData

\* replaceNoDataValueFromTexture: whether the data passed the check, the
\* data after the call, and whether the call threw.
ReplaceNoDataValueFromTexture(data, parent, noData) ==
    LET valid == CheckNodeElevationTextureValidity(data, noData)
    IN  IF valid
        THEN [validity |-> "valid", data |-> <<>>]
        ELSE IF InsertThrows(data, parent, noData)
        THEN [validity |-> "threw", data |-> <<>>]
        ELSE [validity |-> "invalid",
              data |-> InsertSignificantValuesFromParent(
                           data,
                           IF parent.kind = "data" THEN parent.data
                           ELSE DefaultDataParent(data),
                           noData)]

InitInstall ==
    /\ HolderAtRest
    /\ CacheAtRest
    /\ PipeAtRest
    /\ NodeAtRest
    /\ WorkerAtRest
    /\ GridAtRest
    /\ OrderAtRest
    /\ ReadyAtRest
    /\ dataElevation \in PixelArrays
    /\ noDataValue \in Pixels
    /\ parentDataElevation \in {NoParentData, NullParentData} \cup ParentData(dataElevation)
    /\ validity = "none"
    /\ dataReplaced = <<>>

\* RasterElevationTile.setTextures([texture], [pitch]) on a holder of a
\* layer with a noDataValue: replaceNoDataValueFromTexture(texture), then
\* the texture is installed unless the replacement threw.
ISetTextures ==
    \E r \in {ReplaceNoDataValueFromTexture(dataElevation, parentDataElevation, noDataValue)} :
        /\ validity = "none"
        /\ validity' = r.validity
        /\ dataReplaced' = r.data
        /\ UNCHANGED <<dataElevation, noDataValue, parentDataElevation>>
        /\ UNCHANGED <<gridVars, orderVars, readyVars, nodeVars, workerVars>>
        /\ UNCHANGED notUtilVars

NextInstall == ISetTextures

SpecInstall == InitInstall /\ [][NextInstall]_vars

\* setTextures has installed the texture.
Installed == validity \in {"valid", "invalid"}

\* The data of the installed texture
InstalledData == IF validity = "invalid" THEN dataReplaced ELSE dataElevation

\* C25, as stated: the texture that RasterElevationTile.setTextures has
\* installed has no sample equal to noDataValue; each such sample was
\* replaced by the value of the texture held before, or by 0 when there is
\* none.
C25_NoNoDataValueInstalled ==
    Installed =>
        \A i \in DOMAIN dataElevation :
            /\ InstalledData[i] # noDataValue
            /\ dataElevation[i] = noDataValue
                 => InstalledData[i] = (IF parentDataElevation.kind = "data"
                                        THEN parentDataElevation.data[i] ELSE 0)

\* C25 for a texture that fails the check of its corners: each sample
\* equal to noDataValue was replaced by the value of the texture held
\* before, or by 0 when there is none; the other samples are unchanged.
C25_ReplacedWhenCornersInvalid ==
    validity = "invalid" =>
        \A i \in DOMAIN dataElevation :
            InstalledData[i] = (IF dataElevation[i] # noDataValue THEN dataElevation[i]
                                ELSE IF parentDataElevation.kind = "data"
                                THEN parentDataElevation.data[i] ELSE 0)

\* A texture of 3 x 3 samples whose corners are above noDataValue and
\* whose centre equals it was installed.
C25_ValidCornersNoDataCentre ==
    /\ Installed
    /\ Len(dataElevation) = 9
    /\ validity = "valid"
    /\ dataElevation[5] = noDataValue

(***************************************************************************)
(* Claims on the failed loads                                              *)
(***************************************************************************)
\* C26, as stated: the cache of the layer does not retain a failed load;
\* once the promise that getData returned for a key has rejected, the next
\* getData call of that key calls source.loadData again.
C26_FailedLoadNotRetained ==
    \A from \in Keys : \A to \in Keys :
        LET key == GetDataKey(isVectorSource, from, to)
            r == GetData(cache, promises, key)
        IN  (\E i \in DOMAIN promises :
                /\ promises[i].key = key
                /\ promises[i].status = "rejected"
                /\ \A j \in DOMAIN promises : promises[j].key = key => j <= i)
                => r.loaded

\* The rejected promise of a key leaves the cache when its entry is
\* evicted, expires or is cleared, and only then: the next getData call of
\* the key calls source.loadData if and only if the entry has left.
C26_FailedLoadRetainedWhileCached ==
    \A from \in Keys : \A to \in Keys :
        LET key == GetDataKey(isVectorSource, from, to)
            r == GetData(cache, promises, key)
        IN  \A i \in DOMAIN promises :
                (/\ promises[i].key = key
                 /\ promises[i].status = "rejected"
                 /\ \A j \in DOMAIN promises : promises[j].key = key => j <= i)
                    => (r.loaded <=> promises[i].dropped)

\* getData has returned, without loading, the promise of a load that had
\* failed.
C26_RejectedPromiseReturned ==
    /\ lastGet # NoGet
    /\ ~lastGet.loaded
    /\ promises[lastGet.promise].status = "rejected"
    /\ callers[lastGet.promise] >= 2

(***************************************************************************)
(* The layer removed from the node and registered again while a command    *)
(* of the pair is unresolved                                               *)
(***************************************************************************)
\* The commands issued before the removal of the layer: their callbacks
\* close over the node, the layer id and the holder of that time.
IsStale(cmd) == cmd.status \in {"staleQueued", "staleExecuting"}

MarkStale(commands) ==
    [k \in DOMAIN commands |->
        [commands[k] EXCEPT !.status = IF @ = "queued" THEN "staleQueued"
                                        ELSE IF @ = "executing" THEN "staleExecuting"
                                        ELSE @]]

\* The fulfilment callback of a command issued before the removal: it
\* reads node.layerUpdateState[layer.id] when it runs, and writes the
\* textures in the holder it closed over, which the material has no more.
OnStaleFulfilled(s, holder, cmd, results) ==
    LET r == OnFulfilled(s, EmptyHolder, cmd, results)
    IN  [lus |-> r.lus, nl |-> holder, threw |-> r.threw]

\* RasterLayer.delete while a command of the pair is being executed.
TDelete ==
    \E r \in {RemoveLayeredMaterialNodeTile(lus, nl)} :
        /\ attached
        /\ \E k \in DOMAIN cmds : cmds[k].status = "executing"
        /\ \A k \in DOMAIN cmds : ~IsStale(cmds[k])
        /\ lus' = r.lus
        /\ nl' = r.nl
        /\ cmds' = MarkStale(cmds)
        /\ attached' = FALSE
        /\ ev' = [op |-> "delete", target |-> -1, before |-> lus]
        /\ UNCHANGED <<cfg, visible, layerVisible, frozen, issued>>
        /\ UNCHANGED <<settled, sibling, siblingHasTile, notified>>
        /\ UNCHANGED <<elevationVars, utilVars>>
        /\ UNCHANGED holderVars
        /\ UNCHANGED cacheVars

\* The layer, or a layer of the same id, is added to the view again.
TAdd ==
    /\ ~attached
    /\ attached' = TRUE
    /\ UNCHANGED <<settled, sibling, siblingHasTile, notified>>
    /\ UNCHANGED <<elevationVars, utilVars>>
    /\ UNCHANGED pipeVars
    /\ UNCHANGED holderVars
    /\ UNCHANGED cacheVars

\* The scheduler resolves a command issued before the removal.
TFulfilStale ==
    \E k \in DOMAIN cmds : \E results \in ResultLists(cmds[k]) :
        \E r \in {OnStaleFulfilled(lus, nl, cmds[k], results)} :
            /\ cmds[k].status = "staleExecuting"
            /\ lus' = r.lus
            /\ nl' = r.nl
            /\ settled' = Settlement(r.threw)
            /\ cmds' = RemoveAt(cmds, k)
            /\ ev' = [op |-> IF r.threw THEN "staleThrow" ELSE "staleSuccess",
                      target |-> cmds[k].targetLevel, before |-> lus]
            /\ notified' = FALSE
            /\ UNCHANGED <<cfg, visible, layerVisible, frozen, issued>>
            /\ UNCHANGED <<sibling, siblingHasTile, attached>>
            /\ UNCHANGED <<elevationVars, utilVars>>
            /\ UNCHANGED holderVars
            /\ UNCHANGED cacheVars

\* The scheduler rejects a command issued before the removal.
TRejectStale ==
    \E k \in DOMAIN cmds :
        /\ cmds[k].status = "staleExecuting"
        /\ lus' = HandlingError(lus, cmds[k].targetLevel)
        /\ settled' = Settlement(FALSE)
        /\ cmds' = RemoveAt(cmds, k)
        /\ ev' = [op |-> "staleFailure", target |-> cmds[k].targetLevel, before |-> lus]
        /\ notified' = FALSE
        /\ UNCHANGED <<cfg, nl, visible, layerVisible, frozen, issued>>
        /\ UNCHANGED <<sibling, siblingHasTile, attached>>
        /\ UNCHANGED <<elevationVars, utilVars>>
        /\ UNCHANGED holderVars
        /\ UNCHANGED cacheVars

NextReadd ==
    \/ PSetup
    \/ SUpdate
    \/ PDrop
    \/ PExecute
    \/ SFulfil
    \/ SReject
    \/ TDelete
    \/ TAdd
    \/ TFulfilStale
    \/ TRejectStale
    \/ PSetMaterialVisible

SpecReadd == Init /\ [][NextReadd]_vars

\* The commands of the pair issued since the layer was registered last
Current == { k \in DOMAIN cmds : ~IsStale(cmds[k]) }

\* C27, as stated: the completion of a command issued before the layer was
\* removed and registered again does not call success() on the new state:
\* it leaves the state as it is, and the state stays PENDING as long as
\* the command it issued is unresolved, at most one being so.
C27_StaleCompletionLeavesNewState ==
    /\ (ev.op = "staleSuccess") => lus = ev.before
    /\ Cardinality(Current) <= 1
    /\ \A k \in Current : lus.state = "PENDING"

\* The completion of a command issued before the removal, the layer being
\* still absent from the node, changes nothing.
C27_StaleCompletionWithoutState ==
    (ev.op \in {"staleSuccess", "staleFailure"} /\ ev.before = NoState)
        => (lus = NoState /\ nl = NoHolder)

\* A command issued before the removal was fulfilled while the command
\* issued after the layer was registered again is unresolved.
C27_StaleFulfilledDuringNewCommand ==
    /\ ev.op = "staleSuccess"
    /\ ev.before.state = "PENDING"
    /\ Cardinality(Current) = 1

(***************************************************************************)
(* Claims on the textures shared by holders                                *)
(***************************************************************************)
\* The textures that the slots of a holder reference
Held(holder) ==
    IF holder = NoHolder THEN {}
    ELSE { holder.textures[i] : i \in { j \in Slots : IsTexture(holder.textures[j]) } }

\* C28, as stated: a texture that setTextures or dispose disposes is not
\* referenced by a slot of another holder; a child holder that has
\* inherited textures of its parent through initFromParent disposes none
\* of the textures that the parent holder holds, neither when it receives
\* its own textures nor when it is disposed.
C28_NoSharedTextureDisposed ==
    (call.op = "initFromParent")
        => /\ \A ts \in CandidateLists(hExt) :
                DisposedBySetTextures(h, ts) \cap Held(p) = {}
           /\ DisposedByDispose(h) \cap Held(p) = {}

\* A texture refused for every slot disposes nothing: a list of
\* placeholders and nulls leaves the textures that the child holder
\* inherited alone.
C28_RefusedListDisposesNothing ==
    \A ts \in CandidateLists(hExt) :
        (\A k \in DOMAIN ts : ~IsTexture(ts[k]) /\ Truthy(h.textures[k - 1]))
            => DisposedBySetTextures(h, ts) = {}

\* The child holder holds, after initFromParent, a texture that its
\* parent holds, and the texture of its own extent would replace it.
C28_InheritedTextureHeld ==
    /\ call.op = "initFromParent"
    /\ IsTexture(h.textures[0])
    /\ h.textures[0] \in Held(p)
    /\ h.textures[0] \in DisposedBySetTextures(h, <<Texture(hExt[1])>>)

(***************************************************************************)
(* removeLayeredMaterialNodeTile on a node with several layers             *)
(* (Converter/Feature2Texture.ts)                                          *)
(***************************************************************************)
\* The layers of the node
MaxNodeLayers == 3

\* The greatest elevation of the bounding box of the node
MaxElevation == 1

LayerIds == 1 .. MaxNodeLayers

\* removeLayeredMaterialNodeTile(tileId)(node): setBBoxZ({ min: 0, max: 0 })
\* when the material has an elevation tile, material.removeTile(tileId),
\* delete node.layerUpdateState[tileId].
RemoveTileFromNode(node, tileId) ==
    [tiles |-> node.tiles \ {tileId},
     elevationTile |-> IF node.elevationTile = tileId THEN 0 ELSE node.elevationTile,
     layerUpdateState |-> [node.layerUpdateState EXCEPT ![tileId] = "undefined"],
     bboxZ |-> IF node.elevationTile # 0 THEN [min |-> 0, max |-> 0] ELSE node.bboxZ]

InitNode ==
    /\ HolderAtRest
    /\ CacheAtRest
    /\ PipeAtRest
    /\ DataAtRest
    /\ GridAtRest
    /\ OrderAtRest
    /\ ReadyAtRest
    /\ WorkerAtRest
    /\ materialNode = [NoNode EXCEPT !.layerUpdateState = [i \in LayerIds |-> "undefined"]]
    /\ lastRemoved = NoRemoval

\* The first update of the node for a layer: the entry of layerUpdateState
\* is created, and the tile of the layer in the material, which is its
\* elevation tile for an elevation layer.
NInitialise ==
    \E id \in LayerIds : \E elevation \in BOOLEAN :
        /\ materialNode.layerUpdateState[id] = "undefined"
        /\ id \notin materialNode.tiles
        /\ elevation => materialNode.elevationTile = 0
        /\ materialNode' = [materialNode EXCEPT
                              !.tiles = @ \cup {id},
                              !.elevationTile = IF elevation THEN id ELSE @,
                              !.layerUpdateState[id] = "IDLE"]
        /\ lastRemoved' = NoRemoval
        /\ UNCHANGED <<dataVars, gridVars, orderVars, readyVars, workerVars>>
        /\ UNCHANGED notUtilVars

\* The state of a layer changes on the node.
NTransition ==
    \E id \in LayerIds : \E state \in {"IDLE", "PENDING", "DEFINITIVE"} :
        /\ materialNode.layerUpdateState[id] \notin {"undefined", "DEFINITIVE", state}
        /\ materialNode' = [materialNode EXCEPT !.layerUpdateState[id] = state]
        /\ lastRemoved' = NoRemoval
        /\ UNCHANGED <<dataVars, gridVars, orderVars, readyVars, workerVars>>
        /\ UNCHANGED notUtilVars

\* node.setBBoxZ({ min, max }), the elevation tile having new textures.
NSetBBoxZ ==
    \E min \in 0 .. MaxElevation : \E max \in min .. MaxElevation :
        /\ materialNode.elevationTile # 0
        /\ materialNode' = [materialNode EXCEPT !.bboxZ = [min |-> min, max |-> max]]
        /\ lastRemoved' = NoRemoval
        /\ UNCHANGED <<dataVars, gridVars, orderVars, readyVars, workerVars>>
        /\ UNCHANGED notUtilVars

\* removeLayeredMaterialNodeTile(id)(node)
NRemove ==
    \E id \in LayerIds :
        /\ materialNode' = RemoveTileFromNode(materialNode, id)
        /\ lastRemoved' = [id |-> id, before |-> materialNode]
        /\ UNCHANGED <<dataVars, gridVars, orderVars, readyVars, workerVars>>
        /\ UNCHANGED notUtilVars

NextNode == NInitialise \/ NTransition \/ NSetBBoxZ \/ NRemove

SpecNode == InitNode /\ [][NextNode]_vars

\* What the removal leaves of the layer removed and of the other layers
RemovedOnlyLayer(id, before, after) ==
    /\ id \notin after.tiles
    /\ after.layerUpdateState[id] = "undefined"
    /\ \A j \in LayerIds \ {id} :
         /\ after.layerUpdateState[j] = before.layerUpdateState[j]
         /\ (j \in after.tiles) <=> (j \in before.tiles)

\* C29, as stated: removeLayeredMaterialNodeTile(id) removes the tile and
\* the layerUpdateState entry of layer id, leaves the entries of the other
\* layers unchanged, and resets the elevation bounding box of the node
\* only when the tile removed is the elevation tile of the node.
C29_RemovesOnlyLayer ==
    (lastRemoved.id # 0)
        => /\ RemovedOnlyLayer(lastRemoved.id, lastRemoved.before, materialNode)
           /\ (materialNode.bboxZ # lastRemoved.before.bboxZ)
                => lastRemoved.before.elevationTile = lastRemoved.id

\* C29 for the tiles and the states; the bounding box is reset whenever
\* the material has an elevation tile, whatever the layer removed.
C29_BBoxResetWithAnyElevationTile ==
    (lastRemoved.id # 0)
        => /\ RemovedOnlyLayer(lastRemoved.id, lastRemoved.before, materialNode)
           /\ materialNode.bboxZ =
                (IF lastRemoved.before.elevationTile # 0 THEN [min |-> 0, max |-> 0]
                 ELSE lastRemoved.before.bboxZ)

\* A colour layer was removed from a node that has an elevation tile and
\* whose bounding box had elevations above 0.
C29_ColourLayerRemoved ==
    /\ lastRemoved.id # 0
    /\ lastRemoved.id \in lastRemoved.before.tiles
    /\ lastRemoved.before.elevationTile \notin {0, lastRemoved.id}
    /\ lastRemoved.before.bboxZ.max > 0
    /\ materialNode.elevationTile = lastRemoved.before.elevationTile

(***************************************************************************)
(* The pool of LAS workers (Parser/LASParser.js, Worker/LASWorker.js)      *)
(***************************************************************************)
WORKER_LIMIT == 1

\* The tasks of the model
MaxTasks == 3

\* The greatest data.byteLength of a task
MaxCost == 2

TaskIds == 0 .. (MaxTasks - 1)

\* worker._taskCost[id] of a task the worker does not have
NoCost == -1

\* createWorker
CreateWorker(wid) ==
    [wid |-> wid, callbacks |-> {}, taskCost |-> [id \in TaskIds |-> NoCost], taskLoad |-> 0]

\* workerPool.sort((a, b) => b._taskLoad - a._taskLoad): the pool by
\* decreasing load, the order of the workers of equal load being kept.
RECURSIVE SortByLoad(_, _)
SortByLoad(pool, remaining) ==
    IF remaining = {} THEN <<>>
    ELSE LET first == CHOOSE i \in remaining : \A j \in remaining \ {i} :
                          \/ pool[i].taskLoad > pool[j].taskLoad
                          \/ (pool[i].taskLoad = pool[j].taskLoad /\ i < j)
         IN  <<pool[first]>> \o SortByLoad(pool, remaining \ {first})

\* getWorker: the pool after the call and the place of the worker in it.
GetWorker(pool, taskId, taskCost) ==
    LET created == Len(pool) < WORKER_LIMIT
        after == IF created THEN Append(pool, CreateWorker(Len(pool) + 1))
                 ELSE SortByLoad(pool, DOMAIN pool)
        k == Len(after)
    IN  [pool |-> [after EXCEPT ![k].taskCost[taskId] = taskCost,
                                ![k].taskLoad = @ + taskCost],
         worker |-> k]

\* returnWorker, the load of the worker left as it is
ReturnWorkerKeepingLoad(worker, taskId) ==
    [worker EXCEPT !.callbacks = @ \ {taskId}, !.taskCost[taskId] = NoCost]

\* returnWorker
ReturnWorker(worker, taskId) ==
    [worker EXCEPT !.taskLoad = @ - worker.taskCost[taskId],
                   !.callbacks = @ \ {taskId},
                   !.taskCost[taskId] = NoCost]

InitWorker ==
    /\ HolderAtRest
    /\ CacheAtRest
    /\ PipeAtRest
    /\ DataAtRest
    /\ GridAtRest
    /\ OrderAtRest
    /\ ReadyAtRest
    /\ NodeAtRest
    /\ WorkerAtRest

\* The body parseFile and parseChunk share, the arguments being the
\* documented ones (an ArrayBuffer that is not detached, the options of
\* parseChunk defined): the task takes the next id, getWorker, the
\* callbacks of the promise are registered and the message posted.
Dispatch(cost) ==
    \E g \in {GetWorker(workerPool, taskIdCounter, cost)} :
        /\ workerPool' = [g.pool EXCEPT ![g.worker].callbacks = @ \cup {taskIdCounter}]
        /\ taskIdCounter' = taskIdCounter + 1
        /\ tasks' = Append(tasks, [worker |-> g.pool[g.worker].wid,
                                   cost |-> cost, stage |-> "posted",
                                   attributes |-> "none", settled |-> 0])

\* parseFile(data, options) with a worker
WParseFile ==
    \E cost \in 0 .. MaxCost :
        /\ taskIdCounter < MaxTasks
        /\ Dispatch(cost)
        /\ UNCHANGED <<dataVars, gridVars, orderVars, readyVars, nodeVars>>
        /\ UNCHANGED notUtilVars

\* parseChunk(data, options) with a worker
WParseChunk ==
    \E cost \in 0 .. MaxCost :
        /\ taskIdCounter < MaxTasks
        /\ Dispatch(cost)
        /\ UNCHANGED <<dataVars, gridVars, orderVars, readyVars, nodeVars>>
        /\ UNCHANGED notUtilVars

\* The worker answers a task (self.onmessage of the worker script): the
\* loader's promise settles and self.postMessage({ id, attributes }) is
\* called once, the attributes being undefined when the parsing failed.
\* The answers of the tasks come in any order.
WAnswer ==
    \E t \in DOMAIN tasks : \E attributes \in {"defined", "undefined"} :
        /\ tasks[t].stage = "posted"
        /\ tasks' = [tasks EXCEPT ![t].stage = "answered", ![t].attributes = attributes]
        /\ UNCHANGED <<workerPool, taskIdCounter>>
        /\ UNCHANGED <<dataVars, gridVars, orderVars, readyVars, nodeVars>>
        /\ UNCHANGED notUtilVars

\* worker.onmessage: the promise of the task is resolved or rejected, then
\* returnWorker(worker, id).
WOnMessage ==
    \E t \in DOMAIN tasks : \E k \in DOMAIN workerPool :
        /\ tasks[t].stage = "answered"
        /\ workerPool[k].wid = tasks[t].worker
        /\ (t - 1) \in workerPool[k].callbacks
        /\ tasks' = [tasks EXCEPT ![t].stage = "done", ![t].settled = @ + 1]
        /\ workerPool' = [workerPool EXCEPT ![k] = ReturnWorker(@, t - 1)]
        /\ UNCHANGED taskIdCounter
        /\ UNCHANGED <<dataVars, gridVars, orderVars, readyVars, nodeVars>>
        /\ UNCHANGED notUtilVars

NextWorker == WParseFile \/ WParseChunk \/ WAnswer \/ WOnMessage

SpecWorker == InitWorker /\ [][NextWorker]_vars

\* The tasks of a worker that are dispatched and not answered yet
Outstanding(wid) ==
    { id \in TaskIds : id < Len(tasks) /\ tasks[id + 1].worker = wid
                                       /\ tasks[id + 1].stage # "done" }

RECURSIVE SumOfCosts(_)
SumOfCosts(ids) ==
    IF ids = {} THEN 0
    ELSE LET id == CHOOSE x \in ids : TRUE
         IN  tasks[id + 1].cost + SumOfCosts(ids \ {id})

====
